---------------------------- MODULE Spec2Model ----------------------------
(***************************************************************************)
(* PixelPerfect: the client-side image-transform pipeline.                 *)
(*                                                                         *)
(*   SpecCrop   the crop overlay (src/components/CropOverlay.tsx)          *)
(*   SpecMask   the brush overlay, the session's mask strokes and the mask *)
(*              compositor (src/components/Icon.tsx 29-128, 159-161,       *)
(*              617-668, 891-930)                                          *)
(*   SpecProc   processImage and expandImageCanvas                         *)
(*              (src/components/Icon.tsx 793-888)                          *)
(*                                                                         *)
(* JavaScript numbers are modelled as exact rationals <<n, d>>, d > 0, in  *)
(* lowest terms: "equal within floating tolerance" reads as equality.      *)
(***************************************************************************)
EXTENDS Integers, Sequences, FiniteSets, TLC

VARIABLES
    \* ---- CropOverlay (CropOverlay.tsx) ----
    width,          \* prop width  (container width, an integer > 0)
    height,         \* prop height
    aspectRatio,    \* prop aspectRatio, a rational; 0 = free
    crop,           \* useState crop: [x, y, width, height] of rationals
    isDragging,     \* useState isDragging
    dragHandle,     \* useState dragHandle: "none" (null), "move", "se"
    startPos,       \* useRef startPos: [x, y, cx, cy, cw, ch]
    cropCaptured,   \* pointer ids captured by the overlay's container div
    cropPressed,    \* pointer ids that are down over the overlay (environment)
    cropRelease,    \* what the last step did with releasePointerCapture:
                    \* "none", "held" (a held capture released), "idle" (called with none held)
    cropEv,         \* the handler the last step ran
    emitted,        \* the region the last step passed to onCropChange (NoCrop: no call)
    gestures,       \* history: the number of drag gestures begun on this overlay
    \* ---- BrushOverlay and the session's mask state (Icon.tsx) ----
    isMasking,      \* App useState isMasking; the brush overlay is mounted iff TRUE
    brushSize,      \* App useState brushSize
    maskStrokes,    \* App useState maskStrokes
    isDrawing,      \* BrushOverlay useState isDrawing
    currentPoints,  \* BrushOverlay useState currentPoints
    strokes,        \* BrushOverlay useState strokes
    overlayOps,     \* draw calls of the last repaint of the overlay canvas
    compositeOps,   \* draw calls of the last compositeMaskOntoImage
    brushCaptured,  \* pointer ids captured by the overlay canvas
    brushPressed,   \* pointer ids that are down over the canvas (environment)
    brushRelease,   \* as cropRelease, for the brush overlay
    endLog,         \* history: the strokes of this mount in the order their gestures ended
    cleared,        \* history: the strokes that were drawn before the last Clear Mask
    maskEv,         \* the handler the last step ran
    \* ---- processImage / expandImageCanvas (Icon.tsx) ----
    img,            \* the loaded image: [width, height]
    options,        \* ProcessingOptions given to processImage
    targetRatio,    \* aspectRatio given to expandImageCanvas
    ctxOk,          \* whether canvas.getContext('2d') returns a context
    blobOk,         \* whether canvas.toBlob yields a blob
    procResult,     \* outcome of the last processImage call
    expandResult,   \* outcome of the last expandImageCanvas call
    \* ---- App (Icon.tsx 141-780) ----
    mode,           \* useState mode: "UPLOAD", "EDIT"
    originalImage,  \* useState originalImage (NoImage: null)
    previewUrl,     \* useState previewUrl (NoUrl: null)
    scale,          \* useState scale
    cropEnabled,    \* useState cropEnabled
    cropData,       \* useState cropData (NoCrop: undefined)
    isProcessing,   \* useState isProcessing
    errorMessage,   \* useState errorMessage (NoError: null)
    isCompareMode,  \* useState isCompareMode
    isExpanding,    \* useState isExpanding
    showExportMenu, \* useState showExportMenu
    aiPrompt,       \* useState aiPrompt, a sequence of characters
    isAiProcessing, \* useState isAiProcessing
    containerDim,   \* useState containerDim: [w, h]
    apiKey,         \* process.env.API_KEY: [set, text]
    loading,        \* files whose Image element (handleFileUpload) has not loaded yet
    timer,          \* whether the debounce effect's 300 ms timer is armed
    clock,          \* the time since that timer was set, in ms (0 when none is armed)
    jobs,           \* the transforms in flight, in the order they were started
    aiJob,          \* the AI edit in flight (NoJob: none)
    uploadEv,       \* history: the file given to the last handleFileUpload, and its verdict
    lastCall,       \* history: the transform the last step started (NoCall: none)
    lastDone,       \* history: what the last step settled, and how (NoDone: nothing)
    appEv           \* the handler the last step ran

cropVars == <<width, height, aspectRatio, crop, isDragging, dragHandle, startPos,
              cropCaptured, cropPressed, cropRelease, cropEv, emitted, gestures>>
maskVars == <<isMasking, brushSize, maskStrokes, isDrawing, currentPoints, strokes,
              overlayOps, compositeOps, brushCaptured, brushPressed, brushRelease,
              endLog, cleared, maskEv>>
procVars == <<img, options, targetRatio, ctxOk, blobOk, procResult, expandResult>>
appVars == <<mode, originalImage, previewUrl, scale, cropEnabled, cropData, isProcessing,
             errorMessage, isCompareMode, isExpanding, showExportMenu, aiPrompt,
             isAiProcessing, containerDim, apiKey, loading, timer, clock, jobs,
             aiJob, uploadEv, lastCall, lastDone, appEv>>
vars == <<cropVars, maskVars, procVars, appVars>>

---------------------------------------------------------------------------
(* Bounds of the model.                                                    *)

MaxGestures == 2     \* drag gestures begun on one crop overlay
MaxStrokes == 2      \* strokes kept by one mount of the brush overlay
MaxPoints == 2       \* points of one stroke
MaxJobs == 2         \* transforms in flight at once
MaxEdits == 1        \* successful AI edits of one session

\* pointer ids (e.pointerId) seen by the crop overlay and by the brush overlay
CropPointers == {1}
BrushPointers == {1, 2}

\* (clientX, clientY) of a pointer-down on the crop box or its handle, and of pointer-moves:
\* the deltas are 0 and +-90 on each axis
DownPts == {<<90, 90>>}
MovePts == {<<0, 0>>, <<180, 0>>, <<0, 180>>, <<180, 180>>, <<90, 90>>}

\* container sizes (containerDim of the displayed image)
Containers == {<<40, 40>>, <<100, 80>>, <<200, 120>>}

\* the pointer-move positions used while the container is resized
ResizeMovePts == {<<0, 0>>, <<180, 180>>}

\* the sizes a mounted overlay's container is resized to (clientWidth, clientHeight >= 0)
ResizedTo == {<<100, 80>>, <<200, 120>>, <<0, 0>>, <<100, 0>>, <<0, 80>>}

---------------------------------------------------------------------------
(* Rational arithmetic.                                                    *)

Abs(n) == IF n < 0 THEN -n ELSE n

RECURSIVE GCD(_, _)
GCD(a, b) == IF b = 0 THEN a ELSE GCD(b, a % b)

Norm(n, d) ==
    LET g == GCD(Abs(n), d)
    IN  IF n = 0 THEN <<0, 1>> ELSE <<n \div g, d \div g>>

QI(n) == <<n, 1>>
QAdd(a, b) == Norm(a[1] * b[2] + b[1] * a[2], a[2] * b[2])
QSub(a, b) == Norm(a[1] * b[2] - b[1] * a[2], a[2] * b[2])
QMul(a, b) == Norm(a[1] * b[1], a[2] * b[2])
\* b # 0
QDiv(a, b) == IF b[1] > 0 THEN Norm(a[1] * b[2], a[2] * b[1])
                          ELSE Norm(-(a[1] * b[2]), a[2] * (-b[1]))
QLt(a, b) == a[1] * b[2] < b[1] * a[2]
QLe(a, b) == a[1] * b[2] <= b[1] * a[2]
QMax(a, b) == IF QLt(a, b) THEN b ELSE a
QMin(a, b) == IF QLt(b, a) THEN b ELSE a
QZero == <<0, 1>>

---------------------------------------------------------------------------
(* Constants of the program.                                               *)

\* ASPECT_RATIOS[*].ratio
ASPECT_RATIOS == {QZero, QI(1), <<16, 9>>, <<4, 5>>, <<4, 3>>}

\* the minimum of a resized edge: Math.max(50, ...)
MinSize == 50

\* the letters of a handle name, for dragHandle?.includes(c)
HandleLetters(h) ==
    CASE h = "move" -> {"m", "o", "v", "e"}
      [] h = "se"   -> {"s", "e"}
      [] OTHER      -> {}

\* crop?: CropArea left out (undefined)
NoCrop == [unit |-> "none"]

\* the handles rendered by the overlay (onPointerDown of the box and of the corner)
Handles == {"move", "se"}

---------------------------------------------------------------------------
(* CropOverlay.                                                            *)

\* 0.8
Eighty == <<4, 5>>

\* mutant of InitCrop: the 80% rectangle is put at the container's top-left corner
InitCropTopLeft(W, H, r) ==
    LET freeW == QMul(QI(W), Eighty)
        freeH == QMul(QI(H), Eighty)
        wider == IF H = 0 THEN W > 0 ELSE QLt(r, QDiv(QI(W), QI(H)))
        initH == IF r = QZero THEN freeH
                 ELSE IF wider THEN freeH
                 ELSE QDiv(freeW, r)
        initW == IF r = QZero THEN freeW
                 ELSE IF wider THEN QMul(freeH, r)
                 ELSE freeW
    IN  [x |-> QZero, y |-> QZero, width |-> initW, height |-> initH]

\* the init effect's region for a W x H container and ratio r
InitCrop(W, H, r) ==
    LET freeW == QMul(QI(W), Eighty)
        freeH == QMul(QI(H), Eighty)
        \* width / height > aspectRatio; x / 0 is Infinity for x > 0 and NaN for x = 0
        wider == IF H = 0 THEN W > 0 ELSE QLt(r, QDiv(QI(W), QI(H)))
        initH == IF r = QZero THEN freeH
                 ELSE IF wider THEN freeH
                 ELSE QDiv(freeW, r)
        initW == IF r = QZero THEN freeW
                 ELSE IF wider THEN QMul(freeH, r)
                 ELSE freeW
    IN  [x |-> QDiv(QSub(QI(W), initW), QI(2)),
         y |-> QDiv(QSub(QI(H), initH), QI(2)),
         width |-> initW, height |-> initH]

\* mutant of MoveCrop: the delta is applied to the region of the previous frame
MoveCropRelative(c, sp, dx, dy) ==
    [c EXCEPT
       !.x = QMax(QZero, QMin(QSub(QI(width), c.width), QAdd(c.x, QI(dx)))),
       !.y = QMax(QZero, QMin(QSub(QI(height), c.height), QAdd(c.y, QI(dy))))]

\* mutant of MoveCrop: dragging the box also stretches it by the delta
MoveCropStretch(c, sp, dx, dy) ==
    [c EXCEPT
       !.x = QMax(QZero, QMin(QSub(QI(width), c.width), QAdd(sp.cx, QI(dx)))),
       !.y = QMax(QZero, QMin(QSub(QI(height), c.height), QAdd(sp.cy, QI(dy)))),
       !.width = QAdd(sp.cw, QI(dx))]

\* next after the 'move' branch
MoveCrop(c, sp, dx, dy) ==
    [c EXCEPT
       !.x = QMax(QZero, QMin(QSub(QI(width), c.width), QAdd(sp.cx, QI(dx)))),
       !.y = QMax(QZero, QMin(QSub(QI(height), c.height), QAdd(sp.cy, QI(dy))))]

\* next.width / next.height after the two clamped edge updates
ResizeEdges(c, sp, h, dx, dy) ==
    [c EXCEPT
       !.width  = IF "e" \in HandleLetters(h)
                  THEN QMax(QI(MinSize), QMin(QSub(QI(width), c.x), QAdd(sp.cw, QI(dx))))
                  ELSE @,
       !.height = IF "s" \in HandleLetters(h)
                  THEN QMax(QI(MinSize), QMin(QSub(QI(height), c.y), QAdd(sp.ch, QI(dy))))
                  ELSE @]

\* "Enforce aspect ratio": the dependent dimension from the controlling one
AspectFix(n, h, r) ==
    LET n1 == IF "e" \in HandleLetters(h) THEN [n EXCEPT !.height = QDiv(n.width, r)] ELSE n
        n2 == IF "s" \in HandleLetters(h) THEN [n1 EXCEPT !.width = QMul(n1.height, r)] ELSE n1
    IN  n2

\* mutant of BoundaryFix: the edges are clamped but the other dimension is not recomputed
BoundaryFixNoRatio(n, r) ==
    LET n1 == IF QLt(QI(width), QAdd(n.width, n.x))
              THEN [n EXCEPT !.width = QSub(QI(width), n.x)]
              ELSE n
        n2 == IF QLt(QI(height), QAdd(n1.height, n1.y))
              THEN [n1 EXCEPT !.height = QSub(QI(height), n1.y)]
              ELSE n1
    IN  n2

\* "Boundary check after aspect fix"
BoundaryFix(n, r) ==
    LET n1 == IF QLt(QI(width), QAdd(n.width, n.x))
              THEN LET w == QSub(QI(width), n.x)
                   IN  [n EXCEPT !.width = w, !.height = QDiv(w, r)]
              ELSE n
        n2 == IF QLt(QI(height), QAdd(n1.height, n1.y))
              THEN LET hh == QSub(QI(height), n1.y)
                   IN  [n1 EXCEPT !.height = hh, !.width = QMul(hh, r)]
              ELSE n1
    IN  n2

\* the region handlePointerMove sets while dragging
DragCrop(c, sp, h, r, dx, dy) ==
    IF h = "move" THEN MoveCrop(c, sp, dx, dy)
    ELSE LET n == ResizeEdges(c, sp, h, dx, dy)
         IN  IF r # QZero THEN BoundaryFix(AspectFix(n, h, r), r) ELSE n

CropInit ==
    /\ \E c \in Containers : width = c[1] /\ height = c[2]
    /\ aspectRatio \in ASPECT_RATIOS
    /\ crop = InitCrop(width, height, aspectRatio)
    /\ isDragging = FALSE
    /\ dragHandle = "none"
    /\ startPos = [x |-> 0, y |-> 0, cx |-> QZero, cy |-> QZero, cw |-> QZero, ch |-> QZero]
    /\ cropCaptured = {}
    /\ cropPressed = {}
    /\ cropRelease = "none"
    /\ cropEv = "mount"
    /\ emitted = crop
    /\ gestures = 0

\* the parent changes the locked ratio (App: setAspectRatio): the init effect runs again
CropRatioChange(r) ==
    /\ r # aspectRatio
    /\ aspectRatio' = r
    /\ crop' = InitCrop(width, height, r)
    /\ emitted' = crop'
    /\ cropRelease' = "none"
    /\ cropEv' = "init"
    /\ UNCHANGED <<width, height, isDragging, dragHandle, startPos, cropCaptured, cropPressed,
                   gestures>>
    /\ UNCHANGED <<maskVars, procVars, appVars>>

\* a pointer goes down on the crop box ('move') or on its corner handle ('se')
CropPointerDownStep(p, h, cx, cy) ==
    /\ p \notin cropPressed
    /\ gestures < MaxGestures
    /\ gestures' = gestures + 1
    /\ isDragging' = TRUE
    /\ dragHandle' = h
    /\ cropCaptured' = cropCaptured \cup {p}
    /\ cropPressed' = cropPressed \cup {p}
    /\ startPos' = [x |-> cx, y |-> cy, cx |-> crop.x, cy |-> crop.y,
                    cw |-> crop.width, ch |-> crop.height]
    /\ cropRelease' = "none"
    /\ cropEv' = "down"
    /\ emitted' = NoCrop
    /\ UNCHANGED <<width, height, aspectRatio, crop>>

CropPointerDown(p, h, cx, cy) ==
    /\ CropPointerDownStep(p, h, cx, cy)
    /\ UNCHANGED <<maskVars, procVars, appVars>>

\* a pointer goes down on the overlay outside the crop box: no handler is bound
CropPressOutside(p) ==
    /\ p \notin cropPressed
    /\ cropPressed' = cropPressed \cup {p}
    /\ cropRelease' = "none"
    /\ cropEv' = "outside"
    /\ emitted' = NoCrop
    /\ UNCHANGED <<width, height, aspectRatio, crop, isDragging, dragHandle, startPos,
                   cropCaptured, gestures>>
    /\ UNCHANGED <<maskVars, procVars, appVars>>

\* onPointerMove of the container
CropPointerMoveStep(cx, cy) ==
    /\ cropRelease' = "none"
    /\ IF ~isDragging
       THEN /\ cropEv' = "move-idle"
            /\ emitted' = NoCrop
            /\ UNCHANGED crop
       ELSE /\ cropEv' = "move"
            /\ crop' = DragCrop(crop, startPos, dragHandle, aspectRatio,
                                cx - startPos.x, cy - startPos.y)
            /\ emitted' = crop'
    /\ UNCHANGED <<width, height, aspectRatio, isDragging, dragHandle, startPos,
                   cropCaptured, cropPressed, gestures>>

CropPointerMove(cx, cy) ==
    /\ CropPointerMoveStep(cx, cy)
    /\ UNCHANGED <<maskVars, procVars, appVars>>

\* onPointerUp of the container
CropPointerUpStep(p) ==
    /\ p \in cropPressed
    /\ isDragging' = FALSE
    /\ dragHandle' = "none"
    /\ cropRelease' = IF p \in cropCaptured THEN "held" ELSE "idle"
    /\ cropCaptured' = cropCaptured \ {p}
    /\ cropPressed' = cropPressed \ {p}
    /\ cropEv' = "up"
    /\ emitted' = NoCrop
    /\ UNCHANGED <<width, height, aspectRatio, crop, startPos, gestures>>

CropPointerUp(p) ==
    /\ CropPointerUpStep(p)
    /\ UNCHANGED <<maskVars, procVars, appVars>>

\* the parent renders the overlay with another container size: the init effect runs again
CropResize(W, H) ==
    /\ <<W, H>> # <<width, height>>
    /\ width' = W
    /\ height' = H
    /\ crop' = InitCrop(W, H, aspectRatio)
    /\ emitted' = crop'
    /\ cropRelease' = "none"
    /\ cropEv' = "resize"
    /\ UNCHANGED <<aspectRatio, isDragging, dragHandle, startPos, cropCaptured, cropPressed,
                   gestures>>
    /\ UNCHANGED <<maskVars, procVars, appVars>>

CropNext ==
    \/ \E r \in ASPECT_RATIOS : CropRatioChange(r)
    \/ \E p \in CropPointers, h \in Handles, q \in DownPts : CropPointerDown(p, h, q[1], q[2])
    \/ \E p \in CropPointers : CropPressOutside(p)
    \/ \E q \in MovePts : CropPointerMove(q[1], q[2])
    \/ \E p \in CropPointers : CropPointerUp(p)

\* the overlay in a container whose size changes, an empty container included
CropResizeNext ==
    \/ \E c \in ResizedTo : CropResize(c[1], c[2])
    \/ \E r \in ASPECT_RATIOS : CropRatioChange(r)
    \/ \E p \in CropPointers, h \in Handles, q \in DownPts : CropPointerDown(p, h, q[1], q[2])
    \/ \E q \in ResizeMovePts : CropPointerMove(q[1], q[2])
    \/ \E p \in CropPointers : CropPointerUp(p)

\* the pointer-move positions of the drags of SpecCropDrag
DragMovePts == {<<0, 0>>, <<95, 100>>, <<120, 100>>, <<180, 180>>}

\* the overlay under pointer events only: its props do not change
CropDragNext ==
    \/ \E p \in CropPointers, h \in Handles, q \in DownPts : CropPointerDown(p, h, q[1], q[2])
    \/ \E q \in DragMovePts : CropPointerMove(q[1], q[2])
    \/ \E p \in CropPointers : CropPointerUp(p)

---------------------------------------------------------------------------
(* BrushOverlay, the session's mask strokes, the mask compositor.          *)

\* the overlay canvas: its internal resolution (props width, height) and the
\* rectangle it is displayed in (getBoundingClientRect)
BrushCanvas == [width |-> 100, height |-> 80]
BrushRect == [left |-> 10, top |-> 20, width |-> 200, height |-> 80]

\* (clientX, clientY) of the pointer events on the canvas
BrushPts == {<<50, 40>>}

\* values of the brush-size slider (min 10, max 100, initially 40)
BrushSizes == {40, 60}

StrokeColor == "rgba(255, 50, 50, 0.5)"

\* getPoint: client coordinates to canvas coordinates, one scale factor per axis
getPoint(cx, cy) ==
    LET scaleX == QDiv(QI(BrushCanvas.width), QI(BrushRect.width))
        scaleY == QDiv(QI(BrushCanvas.height), QI(BrushRect.height))
    IN  <<QMul(QI(cx - BrushRect.left), scaleX), QMul(QI(cy - BrushRect.top), scaleY)>>

\* the Stroke that handlePointerUp builds
NewStroke(pts, size) == [points |-> pts, size |-> size, color |-> StrokeColor]

\* mutant of UpStrokes: the new stroke is put first
UpStrokesPrepend(st, pts, size) ==
    IF Len(pts) > 0 THEN <<NewStroke(pts, size)>> \o st ELSE st

\* strokes after handlePointerUp of a drawing gesture
UpStrokes(st, pts, size) ==
    IF Len(pts) > 0 THEN Append(st, NewStroke(pts, size)) ELSE st

\* mutant of UpPoints: the active points are kept
UpPointsKept(pts) == pts

\* currentPoints after handlePointerUp of a drawing gesture
UpPoints(pts) == <<>>

\* one stroke drawn as a path: beginPath, moveTo/lineTo over the points, stroke()
RECURSIVE DrawStrokes(_)
DrawStrokes(st) ==
    IF st = <<>> THEN <<>>
    ELSE <<[op |-> "stroke", color |-> Head(st).color, lineWidth |-> Head(st).size,
            path |-> Head(st).points]>> \o DrawStrokes(Tail(st))

\* the draw calls of the repaint effect: clearRect, every stroke in order, then the
\* stroke being drawn
Repaint(st, pts, size) ==
    <<[op |-> "clearRect"]>> \o DrawStrokes(st)
        \o (IF Len(pts) > 0 THEN DrawStrokes(<<NewStroke(pts, size)>>) ELSE <<>>)

\* the draw calls of compositeMaskOntoImage: the image, then every stroke in order
compositeMaskOntoImage(st) ==
    <<[op |-> "drawImage"]>> \o DrawStrokes(st)

MaskInit ==
    /\ isMasking = FALSE
    /\ brushSize = 40
    /\ maskStrokes = <<>>
    /\ isDrawing = FALSE
    /\ currentPoints = <<>>
    /\ strokes = <<>>
    /\ overlayOps = <<>>
    /\ compositeOps = <<>>
    /\ brushCaptured = {}
    /\ brushPressed = {}
    /\ brushRelease = "none"
    /\ endLog = <<>>
    /\ cleared = 0
    /\ maskEv = "none"

\* App "Inpaint" button: setIsMasking(true). The overlay mounts with fresh state and
\* its effect runs: repaint, onStrokesChange(strokes)
EnterMask ==
    /\ ~isMasking
    /\ isMasking' = TRUE
    /\ isDrawing' = FALSE
    /\ currentPoints' = <<>>
    /\ strokes' = <<>>
    /\ overlayOps' = Repaint(<<>>, <<>>, brushSize)
    /\ maskStrokes' = <<>>
    /\ endLog' = <<>>
    /\ cleared' = 0
    /\ brushRelease' = "none"
    /\ compositeOps' = <<>>
    /\ maskEv' = "enter"
    /\ UNCHANGED <<brushSize, brushCaptured, brushPressed>>
    /\ UNCHANGED <<cropVars, procVars, appVars>>

\* App "Global" and "Expand" buttons: setIsMasking(false). The overlay unmounts
ExitMask ==
    /\ isMasking
    /\ isMasking' = FALSE
    /\ isDrawing' = FALSE
    /\ currentPoints' = <<>>
    /\ strokes' = <<>>
    /\ overlayOps' = <<>>
    /\ brushCaptured' = {}
    /\ brushPressed' = {}
    /\ brushRelease' = "none"
    /\ compositeOps' = <<>>
    /\ maskEv' = "exit"
    /\ UNCHANGED <<brushSize, maskStrokes, endLog, cleared>>
    /\ UNCHANGED <<cropVars, procVars, appVars>>

\* App brush-size slider: setBrushSize. brushSize is a dependency of the effect
SetBrushSize(b) ==
    /\ isMasking
    /\ b # brushSize
    /\ brushSize' = b
    /\ overlayOps' = Repaint(strokes, currentPoints, b)
    /\ maskStrokes' = strokes
    /\ brushRelease' = "none"
    /\ compositeOps' = <<>>
    /\ maskEv' = "size"
    /\ UNCHANGED <<isMasking, isDrawing, currentPoints, strokes, brushCaptured, brushPressed,
                   endLog, cleared>>
    /\ UNCHANGED <<cropVars, procVars, appVars>>

\* App "Clear Mask" button: setMaskStrokes([])
ClearMask ==
    /\ isMasking
    /\ maskStrokes' = <<>>
    /\ cleared' = Len(endLog)
    /\ brushRelease' = "none"
    /\ compositeOps' = <<>>
    /\ maskEv' = "clear"
    /\ UNCHANGED <<isMasking, brushSize, isDrawing, currentPoints, strokes, overlayOps,
                   brushCaptured, brushPressed, endLog>>
    /\ UNCHANGED <<cropVars, procVars, appVars>>

\* onPointerDown of the canvas
BrushPointerDownStep(p, cx, cy) ==
    /\ isMasking
    /\ p \notin brushPressed
    /\ Len(strokes) < MaxStrokes
    /\ brushCaptured' = brushCaptured \cup {p}
    /\ brushPressed' = brushPressed \cup {p}
    /\ isDrawing' = TRUE
    /\ currentPoints' = <<getPoint(cx, cy)>>
    /\ overlayOps' = Repaint(strokes, currentPoints', brushSize)
    /\ maskStrokes' = strokes
    /\ brushRelease' = "none"
    /\ compositeOps' = <<>>
    /\ maskEv' = "down"
    /\ UNCHANGED <<isMasking, brushSize, strokes, endLog, cleared>>

\* onPointerDown of the canvas, the brush overlay on its own
BrushPointerDown(p, cx, cy) == BrushPointerDownStep(p, cx, cy) /\ UNCHANGED <<cropVars, procVars, appVars>>

\* a pointer goes down outside the canvas and is later released over it
BrushPressOutside(p) ==
    /\ isMasking
    /\ p \notin brushPressed
    /\ brushPressed' = brushPressed \cup {p}
    /\ brushRelease' = "none"
    /\ compositeOps' = <<>>
    /\ maskEv' = "outside"
    /\ UNCHANGED <<isMasking, brushSize, maskStrokes, isDrawing, currentPoints, strokes,
                   overlayOps, brushCaptured, endLog, cleared>>
    /\ UNCHANGED <<cropVars, procVars, appVars>>

\* onPointerMove of the canvas
BrushPointerMove(cx, cy) ==
    /\ isMasking
    /\ brushRelease' = "none"
    /\ compositeOps' = <<>>
    /\ IF ~isDrawing
       THEN /\ maskEv' = "move-idle"
            /\ UNCHANGED <<currentPoints, overlayOps, maskStrokes>>
       ELSE /\ Len(currentPoints) < MaxPoints
            /\ maskEv' = "move"
            /\ currentPoints' = Append(currentPoints, getPoint(cx, cy))
            /\ overlayOps' = Repaint(strokes, currentPoints', brushSize)
            /\ maskStrokes' = strokes
    /\ UNCHANGED <<isMasking, brushSize, isDrawing, strokes, brushCaptured, brushPressed,
                   endLog, cleared>>
    /\ UNCHANGED <<cropVars, procVars, appVars>>

\* onPointerUp of the canvas; the browser drops a capture still held for p afterwards
BrushPointerUpStep(p) ==
    /\ isMasking
    /\ p \in brushPressed
    /\ brushPressed' = brushPressed \ {p}
    /\ brushCaptured' = brushCaptured \ {p}
    /\ compositeOps' = <<>>
    /\ IF ~isDrawing
       THEN /\ maskEv' = "up-idle"
            /\ brushRelease' = "none"
            /\ UNCHANGED <<isDrawing, currentPoints, strokes, overlayOps, maskStrokes, endLog>>
       ELSE /\ maskEv' = "up"
            /\ isDrawing' = FALSE
            /\ brushRelease' = IF p \in brushCaptured THEN "held" ELSE "idle"
            /\ strokes' = UpStrokes(strokes, currentPoints, brushSize)
            /\ currentPoints' = UpPoints(currentPoints)
            /\ overlayOps' = Repaint(strokes', currentPoints', brushSize)
            /\ maskStrokes' = strokes'
            /\ endLog' = IF Len(currentPoints) > 0
                         THEN Append(endLog, NewStroke(currentPoints, brushSize))
                         ELSE endLog
    /\ UNCHANGED <<isMasking, brushSize, cleared>>

\* onPointerUp of the canvas, the brush overlay on its own
BrushPointerUp(p) == BrushPointerUpStep(p) /\ UNCHANGED <<cropVars, procVars, appVars>>

\* handleAiEdit with isMasking and maskStrokes.length > 0: the composite sent to the
\* AI collaborator
MaskComposite ==
    /\ isMasking
    /\ Len(maskStrokes) > 0
    /\ compositeOps' = compositeMaskOntoImage(maskStrokes)
    /\ brushRelease' = "none"
    /\ maskEv' = "composite"
    /\ UNCHANGED <<isMasking, brushSize, maskStrokes, isDrawing, currentPoints, strokes,
                   overlayOps, brushCaptured, brushPressed, endLog, cleared>>
    /\ UNCHANGED <<cropVars, procVars, appVars>>

MaskNext ==
    \/ EnterMask
    \/ ExitMask
    \/ \E b \in BrushSizes : SetBrushSize(b)
    \/ ClearMask
    \/ \E p \in BrushPointers, q \in BrushPts : BrushPointerDown(p, q[1], q[2])
    \/ \E p \in BrushPointers : BrushPressOutside(p)
    \/ \E q \in BrushPts : BrushPointerMove(q[1], q[2])
    \/ \E p \in BrushPointers : BrushPointerUp(p)
    \/ MaskComposite

---------------------------------------------------------------------------
(* processImage and expandImageCanvas.                                     *)
(* canvas.width / canvas.height are recorded as the numbers assigned to    *)
(* them; the whole-pixel size of the backing store is not modelled.        *)

\* natural sizes of the loaded image
Images == {<<1000, 800>>, <<800, 600>>, <<600, 800>>, <<1600, 900>>}

\* SCALE_PRESETS
SCALE_PRESETS == {<<1, 4>>, <<1, 2>>, <<3, 4>>, QI(1), <<3, 2>>, QI(2), QI(4)}

\* ExportFormat
ExportFormats == {"png", "jpeg", "webp"}

\* values of the export-quality slider used here
Qualities == {<<1, 2>>, QI(1)}

\* CropArea values given as options.crop
CropAreas == {NoCrop,
              [unit |-> "px", x |-> QI(100), y |-> QI(100), width |-> QI(400), height |-> QI(400)],
              [unit |-> "%", x |-> QI(10), y |-> QI(20), width |-> QI(50), height |-> QI(25)]}

\* the ratios of the expansion buttons: 16/9, 9/16, 1
ExpandRatios == {<<16, 9>>, <<9, 16>>, QI(1)}

\* handleExpandRatio's fill colour
FillColor == "white"

NoResult == [status |-> "none"]

\* "1. Calculate Crop": the source rectangle
SourceRect(im, o) ==
    IF o.crop.unit = "none"
    THEN [sx |-> QZero, sy |-> QZero, sw |-> QI(im[1]), sh |-> QI(im[2])]
    ELSE IF o.crop.unit = "%"
    THEN [sx |-> QMul(QDiv(o.crop.x, QI(100)), QI(im[1])),
          sy |-> QMul(QDiv(o.crop.y, QI(100)), QI(im[2])),
          sw |-> QMul(QDiv(o.crop.width, QI(100)), QI(im[1])),
          sh |-> QMul(QDiv(o.crop.height, QI(100)), QI(im[2]))]
    ELSE [sx |-> o.crop.x, sy |-> o.crop.y, sw |-> o.crop.width, sh |-> o.crop.height]

\* mutant of DestSize: the height is not scaled when maintainAspect is off
DestSizeUnscaledHeight(src, o) ==
    LET scaleOr1 == IF o.scale = QZero THEN QI(1) ELSE o.scale
    IN  [dw |-> QMul(src.sw, scaleOr1),
         dh |-> IF o.maintainAspect THEN QMul(src.sh, scaleOr1) ELSE src.sh]

\* "2. Calculate Scale": options.scale || 1, dw, dh (both branches of maintainAspect)
DestSize(src, o) ==
    LET scaleOr1 == IF o.scale = QZero THEN QI(1) ELSE o.scale
    IN  [dw |-> QMul(src.sw, scaleOr1),
         dh |-> IF o.maintainAspect THEN QMul(src.sh, scaleOr1) ELSE QMul(src.sh, scaleOr1)]

\* mutant of processImage: a null blob leaves the promise unsettled
processImageUnsettled(im, o, ctx, blob) ==
    LET src == SourceRect(im, o)
        dst == DestSize(src, o)
    IN  IF ~ctx THEN [status |-> "rejected", error |-> "Could not get canvas context",
                      calls |-> <<"loadImage", "getContext">>]
        ELSE IF ~blob THEN [status |-> "pending",
                            calls |-> <<"loadImage", "getContext", "drawImage", "toBlob">>]
        ELSE [status |-> "resolved",
              calls |-> <<"loadImage", "getContext", "drawImage", "toBlob">>,
              canvas |-> [width |-> dst.dw, height |-> dst.dh],
              draw |-> [sx |-> src.sx, sy |-> src.sy, sw |-> src.sw, sh |-> src.sh,
                        dx |-> QZero, dy |-> QZero, dw |-> dst.dw, dh |-> dst.dh],
              mimeType |-> o.format, quality |-> o.quality]

\* the outcome of processImage on a loaded image; calls: the platform calls made, in order
processImage(im, o, ctx, blob) ==
    LET src == SourceRect(im, o)
        dst == DestSize(src, o)
    IN  IF ~ctx THEN [status |-> "rejected", error |-> "Could not get canvas context",
                      calls |-> <<"loadImage", "getContext">>]
        ELSE IF ~blob THEN [status |-> "rejected", error |-> "Canvas conversion failed",
                            calls |-> <<"loadImage", "getContext", "drawImage", "toBlob">>]
        ELSE [status |-> "resolved",
              calls |-> <<"loadImage", "getContext", "drawImage", "toBlob">>,
              canvas |-> [width |-> dst.dw, height |-> dst.dh],
              draw |-> [sx |-> src.sx, sy |-> src.sy, sw |-> src.sw, sh |-> src.sh,
                        dx |-> QZero, dy |-> QZero, dw |-> dst.dw, dh |-> dst.dh],
              mimeType |-> o.format, quality |-> o.quality]

\* mutant of ExpandSize: the comparison is the wrong way round
ExpandSizeFlipped(im, t) ==
    LET currentRatio == QDiv(QI(im[1]), QI(im[2]))
    IN  IF QLt(t, currentRatio)
        THEN [newW |-> QMul(QI(im[2]), t), newH |-> QI(im[2])]
        ELSE [newW |-> QI(im[1]), newH |-> QDiv(QI(im[1]), t)]

\* the size of the expanded canvas
ExpandSize(im, t) ==
    LET currentRatio == QDiv(QI(im[1]), QI(im[2]))
    IN  IF QLt(currentRatio, t)
        THEN [newW |-> QMul(QI(im[2]), t), newH |-> QI(im[2])]
        ELSE [newW |-> QI(im[1]), newH |-> QDiv(QI(im[1]), t)]

\* mutant of ExpandOffset: the difference is not halved
ExpandOffsetWhole(im, sz) ==
    [dx |-> QSub(sz.newW, QI(im[1])),
     dy |-> QSub(sz.newH, QI(im[2]))]

\* "Center image": the offset the source is drawn at
ExpandOffset(im, sz) ==
    [dx |-> QDiv(QSub(sz.newW, QI(im[1])), QI(2)),
     dy |-> QDiv(QSub(sz.newH, QI(im[2])), QI(2))]

\* the draw calls on the expanded canvas, in order
ExpandOps(im, sz, fill) ==
    LET off == ExpandOffset(im, sz)
    IN  <<[op |-> "fillRect", fillStyle |-> fill, x |-> QZero, y |-> QZero,
           w |-> sz.newW, h |-> sz.newH],
          [op |-> "drawImage", fillStyle |-> fill, x |-> off.dx, y |-> off.dy,
           w |-> QI(im[1]), h |-> QI(im[2])]>>

expandImageCanvas(im, t, fill, ctx, blob) ==
    LET sz == ExpandSize(im, t)
    IN  IF ~ctx THEN [status |-> "rejected", error |-> "Context failed"]
        ELSE IF ~blob THEN [status |-> "pending"]
        ELSE [status |-> "resolved",
              canvas |-> [width |-> sz.newW, height |-> sz.newH],
              ops |-> ExpandOps(im, sz, fill),
              mimeType |-> "png"]

ProcInit ==
    /\ img \in Images
    /\ options \in [scale : SCALE_PRESETS, maintainAspect : BOOLEAN, crop : CropAreas,
                    format : ExportFormats, quality : Qualities]
    /\ targetRatio \in ExpandRatios
    /\ ctxOk \in BOOLEAN
    /\ blobOk \in BOOLEAN
    /\ procResult = NoResult
    /\ expandResult = NoResult

\* one fixed input, for the specifications of the overlays
ProcIdle ==
    /\ img = <<800, 600>>
    /\ options = [scale |-> QI(1), maintainAspect |-> TRUE, crop |-> NoCrop,
                  format |-> "png", quality |-> QI(1)]
    /\ targetRatio = QI(1)
    /\ ctxOk = TRUE
    /\ blobOk = TRUE
    /\ procResult = NoResult
    /\ expandResult = NoResult

ProcessImage ==
    /\ procResult' = processImage(img, options, ctxOk, blobOk)
    /\ UNCHANGED <<img, options, targetRatio, ctxOk, blobOk, expandResult>>
    /\ UNCHANGED <<cropVars, maskVars, appVars>>

ExpandImageCanvas ==
    /\ expandResult' = expandImageCanvas(img, targetRatio, FillColor, ctxOk, blobOk)
    /\ UNCHANGED <<img, options, targetRatio, ctxOk, blobOk, procResult>>
    /\ UNCHANGED <<cropVars, maskVars, appVars>>

ProcNext ==
    \/ ProcessImage
    \/ ExpandImageCanvas

---------------------------------------------------------------------------
(* App: the session state, the upload, the transforms in flight, the AI    *)
(* edit. A URL is modelled by what it shows:                               *)
(* [kind, name, n, w, h, crop, scale, ratio].                              *)

MAX_FILE_SIZE_MB == 10

ALLOWED_TYPES == {"image/jpeg", "image/png", "image/webp"}

\* useState maintainAspect: setMaintainAspect is never called
maintainAspect == TRUE

NoError == "null"
NoUrl == [kind |-> "none"]
NoImage == [kind |-> "none"]
NoFile == [present |-> FALSE]
NoJob == [kind |-> "none"]
NoCall == [kind |-> "none"]
NoDone == [outcome |-> "none"]
NoStartPos == [x |-> 0, y |-> 0, cx |-> QZero, cy |-> QZero, cw |-> QZero, ch |-> QZero]

\* the files given to the file input: e.target.files?.[0]
Files ==
    {[present |-> TRUE, name |-> "a.jpg", type |-> "image/jpeg", size |-> 10485760,
      width |-> 800, height |-> 600],
     [present |-> TRUE, name |-> "b.png", type |-> "image/png", size |-> 2048,
      width |-> 600, height |-> 800],
     [present |-> TRUE, name |-> "c.webp", type |-> "image/webp", size |-> 10485759,
      width |-> 800, height |-> 600],
     [present |-> TRUE, name |-> "d.gif", type |-> "image/gif", size |-> 2048,
      width |-> 800, height |-> 600],
     [present |-> TRUE, name |-> "e.jpg", type |-> "image/jpeg", size |-> 10485761,
      width |-> 800, height |-> 600],
     [present |-> TRUE, name |-> "f.gif", type |-> "image/gif", size |-> 10485761,
      width |-> 800, height |-> 600],
     NoFile}

\* clientWidth / clientHeight of the preview container when the editor is first rendered
ClientDims == {[w |-> 200, h |-> 120], [w |-> 0, h |-> 0]}

\* the size of the displayed <img> and of its container once an image is shown
ShownDims == {[w |-> 200, h |-> 120]}

\* the scales set in the model: two of the preset buttons
AppScales == {QI(1), <<1, 2>>}

\* the ratio buttons pressed in the model
AppRatios == {QZero, QI(1)}

\* the pointer-move positions over the crop overlay in the App
AppMovePts == {<<180, 180>>}

\* the prompts typed in the model
Prompts == {<<>>, <<" ">>, <<"p">>}

\* process.env.API_KEY: undefined, empty, blank, a key
ApiKeys == {[set |-> FALSE, text |-> <<>>], [set |-> TRUE, text |-> <<>>],
            [set |-> TRUE, text |-> <<" ", "\t">>], [set |-> TRUE, text |-> <<"k">>]}

\* the sizes of the images the AI service returns
AiDims == {<<1024, 1024>>}

\* the messages of the errors aiEditImage rejects with ("": an error without message)
RemoteErrors == {"quota exceeded", ""}

Url(kind, name, n, w, h, c, sc, ratio) ==
    [kind |-> kind, name |-> name, n |-> n, w |-> w, h |-> h, crop |-> c, scale |-> sc,
     ratio |-> ratio]

\* URL.createObjectURL(file)
FileUrl(f) == Url("file", f.name, 0, QI(f.width), QI(f.height), NoCrop, QI(1), QZero)

\* the natural size of the image behind a source URL
UrlDims(u) == <<u.w[1], u.h[1]>>

\* mutant of TooLarge: a file of exactly the maximum size is refused
TooLargeInclusive(f) == f.size >= MAX_FILE_SIZE_MB * 1024 * 1024

\* file.size > MAX_FILE_SIZE_MB * 1024 * 1024
TooLarge(f) == f.size > MAX_FILE_SIZE_MB * 1024 * 1024

Whitespace == {" ", "\t"}

RECURSIVE TrimStart(_)
TrimStart(t) == IF t # <<>> /\ Head(t) \in Whitespace THEN TrimStart(Tail(t)) ELSE t

RECURSIVE TrimEnd(_)
TrimEnd(t) ==
    IF t # <<>> /\ t[Len(t)] \in Whitespace THEN TrimEnd(SubSeq(t, 1, Len(t) - 1)) ELSE t

\* mutant of Trim: the text is compared untrimmed
TrimNothing(t) == t

\* String.prototype.trim
Trim(t) == TrimEnd(TrimStart(t))

\* the ComparisonSlider is rendered in place of the image and the overlays
CompareShown(cmp, oi, pv) == cmp /\ oi # NoImage /\ pv # NoUrl

\* the CropOverlay is rendered
CropShown(m, ce, oi, cd, cmp, pv) ==
    m # "UPLOAD" /\ ~CompareShown(cmp, oi, pv) /\ ce /\ oi # NoImage /\ cd.w > 0

\* the BrushOverlay is rendered
BrushShown(m, im, oi, cd, cmp, pv) ==
    m # "UPLOAD" /\ ~CompareShown(cmp, oi, pv) /\ im /\ cd.w > 0

\* msg.includes("AI") for the messages of the program (the comparison is case-sensitive:
\* "Failed", "failed" and "API" do not contain "AI")
IncludesAI(msg) ==
    CASE msg = "Unsupported file format. Please use JPG, PNG, or WEBP." -> FALSE
      [] msg = "File too large. Max size is 10MB." -> FALSE
      [] msg = "Failed to update preview." -> FALSE
      [] msg = "Download failed." -> FALSE
      [] msg = "Expansion preview failed" -> FALSE
      [] msg = "Missing API Key. Please add VITE_API_KEY in Vercel Settings and redeploy." -> FALSE
      [] msg = "AI Failed: Unknown error" -> TRUE
      [] msg = "AI Failed: Could not get canvas context" -> TRUE
      [] msg = "AI Failed: Canvas conversion failed" -> TRUE
      [] msg = "AI Failed: Context failed" -> TRUE
      [] msg = "AI Failed: Mask composite failed" -> TRUE
      [] msg = "AI Failed: No image to expand" -> TRUE
      [] msg = "AI Failed: Failed to fetch" -> TRUE
      [] msg = "AI Failed: quota exceeded" -> TRUE

\* the render shows the error message: the upload screen shows any message, the edit
\* screen shows it under the AI button when it includes "AI"
ErrorShown(m, msg) ==
    /\ msg # NoError
    /\ m = "UPLOAD" \/ IncludesAI(msg)

\* mutant of CropAfterCompare: entering compare mode leaves crop mode on
CropAfterCompareKept(ce, cmp) == ce

\* the compare button's update of cropEnabled
CropAfterCompare(ce, cmp) == IF ce /\ ~cmp THEN FALSE ELSE ce

\* mutant of ToNative: the horizontal factor is used for both axes
ToNativeOneFactor(c, oi, cd) ==
    LET scaleX == QDiv(QI(oi.width), QI(cd.w))
    IN  [x |-> QMul(c.x, scaleX), y |-> QMul(c.y, scaleX),
         width |-> QMul(c.width, scaleX), height |-> QMul(c.height, scaleX), unit |-> "px"]

\* onCropChange: the overlay's region in native pixels
ToNative(c, oi, cd) ==
    LET scaleX == QDiv(QI(oi.width), QI(cd.w))
        scaleY == QDiv(QI(oi.height), QI(cd.h))
    IN  [x |-> QMul(c.x, scaleX), y |-> QMul(c.y, scaleY),
         width |-> QMul(c.width, scaleX), height |-> QMul(c.height, scaleY), unit |-> "px"]

\* the CropOverlay after the render that follows a state change of the App: mounted
\* (init effect), re-initialised (width, height or aspectRatio changed), untouched, or
\* unmounted; cd0 is cropData as the handler left it
CropSync(cd0) ==
    LET was == CropShown(mode, cropEnabled, originalImage, containerDim, isCompareMode,
                         previewUrl)
        now == CropShown(mode', cropEnabled', originalImage', containerDim', isCompareMode',
                         previewUrl')
        W == containerDim'.w
        H == containerDim'.h
    IN  /\ cropRelease' = "none"
        /\ UNCHANGED gestures
        /\ IF now /\ ~was
           THEN /\ width' = W
                /\ height' = H
                /\ crop' = InitCrop(W, H, aspectRatio')
                /\ emitted' = crop'
                /\ cropData' = ToNative(crop', originalImage', containerDim')
                /\ cropEv' = "mount"
                /\ isDragging' = FALSE
                /\ dragHandle' = "none"
                /\ startPos' = NoStartPos
                /\ cropCaptured' = {}
                /\ cropPressed' = {}
           ELSE IF now /\ (width # W \/ height # H \/ aspectRatio' # aspectRatio)
           THEN /\ width' = W
                /\ height' = H
                /\ crop' = InitCrop(W, H, aspectRatio')
                /\ emitted' = crop'
                /\ cropData' = ToNative(crop', originalImage', containerDim')
                /\ cropEv' = "init"
                /\ UNCHANGED <<isDragging, dragHandle, startPos, cropCaptured, cropPressed>>
           ELSE IF now
           THEN /\ cropData' = cd0
                /\ emitted' = NoCrop
                /\ cropEv' = "render"
                /\ UNCHANGED <<width, height, crop, isDragging, dragHandle, startPos,
                               cropCaptured, cropPressed>>
           ELSE /\ cropData' = cd0
                /\ emitted' = NoCrop
                /\ cropEv' = "unmounted"
                /\ width' = 0
                /\ height' = 0
                /\ crop' = NoCrop
                /\ isDragging' = FALSE
                /\ dragHandle' = "none"
                /\ startPos' = NoStartPos
                /\ cropCaptured' = {}
                /\ cropPressed' = {}

\* no CropOverlay is rendered
CropUnmounted ==
    /\ width = 0
    /\ height = 0
    /\ aspectRatio = QZero
    /\ crop = NoCrop
    /\ isDragging = FALSE
    /\ dragHandle = "none"
    /\ startPos = NoStartPos
    /\ cropCaptured = {}
    /\ cropPressed = {}
    /\ cropRelease = "none"
    /\ cropEv = "unmounted"
    /\ emitted = NoCrop
    /\ gestures = 0

\* the BrushOverlay after the render that follows a state change of the App: mounted
\* (fresh state, effect), effect re-run (width, height or brushSize changed), untouched,
\* or unmounted; ms0 is maskStrokes as the handler left it
BrushSync(ms0) ==
    LET was == BrushShown(mode, isMasking, originalImage, containerDim, isCompareMode,
                          previewUrl)
        now == BrushShown(mode', isMasking', originalImage', containerDim', isCompareMode',
                          previewUrl')
    IN  IF now /\ ~was
        THEN /\ isDrawing' = FALSE
             /\ currentPoints' = <<>>
             /\ strokes' = <<>>
             /\ overlayOps' = Repaint(<<>>, <<>>, brushSize')
             /\ maskStrokes' = <<>>
             /\ endLog' = <<>>
             /\ cleared' = 0
             /\ brushCaptured' = {}
             /\ brushPressed' = {}
             /\ brushRelease' = "none"
             /\ compositeOps' = <<>>
             /\ maskEv' = "enter"
        ELSE IF now /\ (containerDim' # containerDim \/ brushSize' # brushSize)
        THEN /\ overlayOps' = Repaint(strokes, currentPoints, brushSize')
             /\ maskStrokes' = strokes
             /\ brushRelease' = "none"
             /\ compositeOps' = <<>>
             /\ maskEv' = "size"
             /\ UNCHANGED <<isDrawing, currentPoints, strokes, brushCaptured, brushPressed,
                            endLog, cleared>>
        ELSE IF was /\ ~now
        THEN /\ isDrawing' = FALSE
             /\ currentPoints' = <<>>
             /\ strokes' = <<>>
             /\ overlayOps' = <<>>
             /\ maskStrokes' = ms0
             /\ brushCaptured' = {}
             /\ brushPressed' = {}
             /\ brushRelease' = "none"
             /\ compositeOps' = <<>>
             /\ maskEv' = "exit"
             /\ UNCHANGED <<endLog, cleared>>
        ELSE /\ maskStrokes' = ms0
             /\ UNCHANGED <<isDrawing, currentPoints, strokes, overlayOps, compositeOps,
                            brushCaptured, brushPressed, brushRelease, endLog, cleared,
                            maskEv>>

\* the delay of the debounce effect's timer: setTimeout(..., 300)
Delay == 300

\* mutant of TimerSync: a timer that is already armed is left running (a throttle)
TimerSyncThrottle ==
    IF <<scale', originalImage', cropEnabled', cropData', mode', isMasking', isExpanding'>>
          # <<scale, originalImage, cropEnabled, cropData, mode, isMasking, isExpanding>>
    THEN /\ timer' = TRUE
         /\ clock' = IF timer THEN clock ELSE 0
    ELSE UNCHANGED <<timer, clock>>

\* the debounce effect: a change of one of its dependencies (scale, maintainAspect,
\* updatePreview, mode, cropEnabled, isMasking, isExpanding) runs the cleanup
\* (clearTimeout) and sets a new timer of Delay units
TimerSync ==
    IF <<scale', originalImage', cropEnabled', cropData', mode', isMasking', isExpanding'>>
          # <<scale, originalImage, cropEnabled, cropData, mode, isMasking, isExpanding>>
    THEN /\ timer' = TRUE
         /\ clock' = 0
    ELSE UNCHANGED <<timer, clock>>

\* the effect on [previewUrl, mode, isExpanding]: containerDim is read from the container
EffectDim(d) ==
    containerDim' = IF /\ mode' # "UPLOAD"
                       /\ <<previewUrl', mode', isExpanding'>> # <<previewUrl, mode, isExpanding>>
                    THEN d
                    ELSE containerDim

\* the options the handlers build for processImage
TransformOptions(sc, ce, cdt, fmt, q) ==
    [scale |-> sc, maintainAspect |-> maintainAspect, crop |-> IF ce THEN cdt ELSE NoCrop,
     format |-> fmt, quality |-> q]

\* a transform in flight
Job(kind, oi, opts, ratio) ==
    [kind |-> kind, src |-> oi.originalUrl, options |-> opts, ratio |-> ratio,
     stuck |-> FALSE]

\* updatePreview() called from a render in which scale, cropEnabled, cropData had these values
PreviewJob(oi, sc, ce, cdt) == Job("preview", oi, TransformOptions(sc, ce, cdt, "png", QI(1)), QZero)

\* the URL of the blob a resolved transform yields
ResultUrl(job, r) ==
    Url(IF job.kind = "expand" THEN "expand" ELSE "proc", job.src.name, job.src.n,
        r.canvas.width, r.canvas.height, job.options.crop, job.options.scale, job.ratio)

\* the outcome of the transform of a job
JobResult(job, ctx, blob) ==
    IF job.kind = "expand"
    THEN expandImageCanvas(UrlDims(job.src), job.ratio, FillColor, ctx, blob)
    ELSE processImage(UrlDims(job.src), job.options, ctx, blob)

\* the message the catch block of the job's handler sets
CatchMessage(kind) ==
    CASE kind = "preview"  -> "Failed to update preview."
      [] kind = "download" -> "Download failed."
      [] kind = "expand"   -> "Expansion preview failed"

\* mutant of RemoveAt: the transforms started before the i-th are dropped with it
RemoveUpTo(q, i) == SubSeq(q, i + 1, Len(q))

\* the transforms in flight once the i-th has settled: the others keep running
RemoveAt(q, i) == SubSeq(q, 1, i - 1) \o SubSeq(q, i + 1, Len(q))

\* mutant of SessionImageAfter: a resolved transform becomes the session image's source
SessionImageAfterReplaced(oi, job, r) ==
    IF r.status = "resolved" /\ job.kind # "download"
    THEN [oi EXCEPT !.originalUrl = ResultUrl(job, r)]
    ELSE oi

\* the session image after the continuation of updatePreview, handleDownload or
\* handleExpandRatio: they call setPreviewUrl, setErrorMessage and setIsProcessing only
SessionImageAfter(oi, job, r) == oi

\* the App component after its first render, on the upload screen
AppMount ==
    /\ mode = "UPLOAD"
    /\ originalImage = NoImage
    /\ previewUrl = NoUrl
    /\ scale = QI(1)
    /\ cropEnabled = FALSE
    /\ cropData = NoCrop
    /\ isProcessing = FALSE
    /\ errorMessage = NoError
    /\ isCompareMode = FALSE
    /\ isExpanding = FALSE
    /\ showExportMenu = FALSE
    /\ aiPrompt = <<>>
    /\ isAiProcessing = FALSE
    /\ containerDim = [w |-> 0, h |-> 0]
    /\ loading = {}
    /\ timer = TRUE
    /\ clock = 0
    /\ jobs = <<>>
    /\ aiJob = NoJob
    /\ uploadEv = [file |-> NoFile, verdict |-> "none"]
    /\ lastCall = NoCall
    /\ lastDone = NoDone
    /\ appEv = "mount"

\* the session image made by img.onload of an uploaded file
ImageOf(f) ==
    [originalUrl |-> FileUrl(f), currentUrl |-> FileUrl(f), filename |-> f.name,
     width |-> f.width, height |-> f.height, fileSize |-> f.size, type |-> f.type]

\* the editor just after the upload of a.jpg: the state FileImgLoad leaves
AppEditing(f, d) ==
    /\ mode = "EDIT"
    /\ originalImage = ImageOf(f)
    /\ previewUrl = FileUrl(f)
    /\ scale = QI(1)
    /\ cropEnabled = FALSE
    /\ cropData = NoCrop
    /\ isProcessing = FALSE
    /\ errorMessage = NoError
    /\ isCompareMode = FALSE
    /\ isExpanding = FALSE
    /\ showExportMenu = FALSE
    /\ aiPrompt = <<>>
    /\ isAiProcessing = FALSE
    /\ containerDim = d
    /\ loading = {}
    /\ timer = TRUE
    /\ clock = 0
    /\ jobs = <<>>
    /\ aiJob = NoJob
    /\ uploadEv = [file |-> f, verdict |-> "accepted"]
    /\ lastCall = NoCall
    /\ lastDone = NoDone
    /\ appEv = "fileload"

\* onChange of the file input, onDrop of the drop zone (both on the upload screen)
HandleFileUpload(f) ==
    /\ mode = "UPLOAD"
    /\ appEv' = "upload"
    /\ lastCall' = NoCall
    /\ lastDone' = NoDone
    /\ IF ~f.present
       THEN /\ uploadEv' = [file |-> f, verdict |-> "none"]
            /\ UNCHANGED <<errorMessage, loading>>
       ELSE IF f.type \notin ALLOWED_TYPES
       THEN /\ errorMessage' = "Unsupported file format. Please use JPG, PNG, or WEBP."
            /\ uploadEv' = [file |-> f, verdict |-> "rejected"]
            /\ UNCHANGED loading
       ELSE IF TooLarge(f)
       THEN /\ errorMessage' = "File too large. Max size is 10MB."
            /\ uploadEv' = [file |-> f, verdict |-> "rejected"]
            /\ UNCHANGED loading
       ELSE /\ errorMessage' = NoError
            /\ uploadEv' = [file |-> f, verdict |-> "accepted"]
            /\ loading' = loading \cup {f}
    /\ UNCHANGED <<mode, originalImage, previewUrl, scale, cropEnabled, isProcessing,
                   isCompareMode, isExpanding, showExportMenu, aiPrompt, isAiProcessing,
                   containerDim, apiKey, jobs, aiJob, aspectRatio, isMasking, brushSize>>
    /\ CropSync(cropData)
    /\ BrushSync(maskStrokes)
    /\ TimerSync
    /\ UNCHANGED procVars

\* img.onload of an accepted file: the session image, the preview and the mode are set;
\* the effects run: the debounce timer is armed, containerDim is read from the container
FileImgLoad(f, d) ==
    /\ f \in loading
    /\ loading' = loading \ {f}
    /\ originalImage' = ImageOf(f)
    /\ previewUrl' = FileUrl(f)
    /\ mode' = "EDIT"
    /\ appEv' = "fileload"
    /\ lastCall' = NoCall
    /\ lastDone' = NoDone
    /\ UNCHANGED <<scale, cropEnabled, isProcessing, errorMessage, isCompareMode,
                   isExpanding, showExportMenu, aiPrompt, isAiProcessing, apiKey, jobs,
                   aiJob, uploadEv, aspectRatio, isMasking, brushSize>>
    /\ EffectDim(d)
    /\ CropSync(cropData)
    /\ BrushSync(maskStrokes)
    /\ TimerSync
    /\ UNCHANGED procVars

\* the Image element of an accepted file fails to decode: no onerror handler is set
FileImgFail(f) ==
    /\ f \in loading
    /\ loading' = loading \ {f}
    /\ appEv' = "fileerror"
    /\ lastCall' = NoCall
    /\ lastDone' = NoDone
    /\ UNCHANGED <<mode, originalImage, previewUrl, scale, cropEnabled, isProcessing,
                   errorMessage, isCompareMode, isExpanding, showExportMenu, aiPrompt,
                   isAiProcessing, containerDim, apiKey, jobs, aiJob, uploadEv,
                   aspectRatio, isMasking, brushSize>>
    /\ CropSync(cropData)
    /\ BrushSync(maskStrokes)
    /\ TimerSync
    /\ UNCHANGED procVars

\* the "New Image" button of the editor's header
NewImage ==
    /\ mode # "UPLOAD"
    /\ mode' = "UPLOAD"
    /\ appEv' = "new"
    /\ lastCall' = NoCall
    /\ lastDone' = NoDone
    /\ UNCHANGED <<originalImage, previewUrl, scale, cropEnabled, isProcessing,
                   errorMessage, isCompareMode, isExpanding, showExportMenu, aiPrompt,
                   isAiProcessing, containerDim, apiKey, loading, jobs, aiJob, uploadEv,
                   aspectRatio, isMasking, brushSize>>
    /\ CropSync(cropData)
    /\ BrushSync(maskStrokes)
    /\ TimerSync
    /\ UNCHANGED procVars

UploadNext ==
    \/ \E f \in Files : HandleFileUpload(f)
    \/ \E f \in Files, d \in ClientDims : FileImgLoad(f, d)
    \/ \E f \in Files : FileImgFail(f)
    \/ NewImage

\* the resize slider and the preset buttons: setScale
SetScale(s) ==
    /\ mode = "EDIT"
    /\ ~isExpanding /\ ~isMasking
    /\ s # scale
    /\ scale' = s
    /\ appEv' = "scale"
    /\ lastCall' = NoCall
    /\ lastDone' = NoDone
    /\ UNCHANGED <<mode, originalImage, previewUrl, cropEnabled, isProcessing,
                   errorMessage, isCompareMode, isExpanding, showExportMenu, aiPrompt,
                   isAiProcessing, containerDim, apiKey, loading, jobs, aiJob, uploadEv,
                   aspectRatio, isMasking, brushSize>>
    /\ CropSync(cropData)
    /\ BrushSync(maskStrokes)
    /\ TimerSync
    /\ UNCHANGED procVars

\* the crop button while it reads "Enable": setCropEnabled(true)
EnableCrop ==
    /\ mode = "EDIT"
    /\ ~isExpanding /\ ~isMasking
    /\ ~cropEnabled
    /\ isCompareMode' = FALSE
    /\ cropEnabled' = TRUE
    /\ appEv' = "enable"
    /\ lastCall' = NoCall
    /\ lastDone' = NoDone
    /\ UNCHANGED <<mode, originalImage, previewUrl, scale, isProcessing, errorMessage,
                   isExpanding, showExportMenu, aiPrompt, isAiProcessing, containerDim,
                   apiKey, loading, jobs, aiJob, uploadEv, aspectRatio, isMasking,
                   brushSize>>
    /\ CropSync(cropData)
    /\ BrushSync(maskStrokes)
    /\ TimerSync
    /\ UNCHANGED procVars

\* the crop button while it reads "Apply": handleApplyCrop. updatePreview is the callback
\* of the render in which the button was pressed, where cropEnabled is true
ApplyCrop ==
    /\ mode = "EDIT"
    /\ ~isExpanding /\ ~isMasking
    /\ cropEnabled
    /\ (cropData # NoCrop /\ originalImage # NoImage) => Len(jobs) < MaxJobs
    /\ isCompareMode' = FALSE
    /\ appEv' = "apply"
    /\ lastDone' = NoDone
    /\ IF cropData # NoCrop /\ originalImage # NoImage
       THEN /\ cropEnabled' = FALSE
            /\ jobs' = Append(jobs, PreviewJob(originalImage, scale, cropEnabled, cropData))
            /\ isProcessing' = TRUE
            /\ lastCall' = PreviewJob(originalImage, scale, cropEnabled, cropData)
       ELSE /\ lastCall' = NoCall
            /\ UNCHANGED <<cropEnabled, jobs, isProcessing>>
    /\ UNCHANGED <<mode, originalImage, previewUrl, scale, errorMessage, isExpanding,
                   showExportMenu, aiPrompt, isAiProcessing, containerDim, apiKey, loading,
                   aiJob, uploadEv, aspectRatio, isMasking, brushSize>>
    /\ CropSync(cropData)
    /\ BrushSync(maskStrokes)
    /\ TimerSync
    /\ UNCHANGED procVars

\* the ratio buttons shown while crop mode is on: setAspectRatio
SetAspectRatio(r) ==
    /\ mode = "EDIT"
    /\ ~isExpanding /\ ~isMasking
    /\ cropEnabled
    /\ r # aspectRatio
    /\ aspectRatio' = r
    /\ appEv' = "ratio"
    /\ lastCall' = NoCall
    /\ lastDone' = NoDone
    /\ UNCHANGED <<mode, originalImage, previewUrl, scale, cropEnabled, isProcessing,
                   errorMessage, isCompareMode, isExpanding, showExportMenu, aiPrompt,
                   isAiProcessing, containerDim, apiKey, loading, jobs, aiJob, uploadEv,
                   isMasking, brushSize>>
    /\ CropSync(cropData)
    /\ BrushSync(maskStrokes)
    /\ TimerSync
    /\ UNCHANGED procVars

\* the compare button of the header
ToggleCompare ==
    /\ mode = "EDIT"
    /\ cropEnabled' = CropAfterCompare(cropEnabled, isCompareMode)
    /\ isCompareMode' = ~isCompareMode
    /\ appEv' = "compare"
    /\ lastCall' = NoCall
    /\ lastDone' = NoDone
    /\ UNCHANGED <<mode, originalImage, previewUrl, scale, isProcessing, errorMessage,
                   isExpanding, showExportMenu, aiPrompt, isAiProcessing, containerDim,
                   apiKey, loading, jobs, aiJob, uploadEv, aspectRatio, isMasking,
                   brushSize>>
    /\ CropSync(cropData)
    /\ BrushSync(maskStrokes)
    /\ TimerSync
    /\ UNCHANGED procVars

\* the "Global" button: setIsExpanding(false); setIsMasking(false); updatePreview()
ModeGlobal(d) ==
    /\ mode = "EDIT"
    /\ Len(jobs) < MaxJobs
    /\ isExpanding' = FALSE
    /\ isMasking' = FALSE
    /\ appEv' = "global"
    /\ lastDone' = NoDone
    /\ jobs' = Append(jobs, PreviewJob(originalImage, scale, cropEnabled, cropData))
    /\ isProcessing' = TRUE
    /\ lastCall' = PreviewJob(originalImage, scale, cropEnabled, cropData)
    /\ UNCHANGED <<mode, originalImage, previewUrl, scale, cropEnabled, errorMessage,
                   isCompareMode, showExportMenu, aiPrompt, isAiProcessing, apiKey,
                   loading, aiJob, uploadEv, aspectRatio, brushSize>>
    /\ EffectDim(d)
    /\ CropSync(cropData)
    /\ BrushSync(maskStrokes)
    /\ TimerSync
    /\ UNCHANGED procVars

\* the "Expand" button
ModeExpand(d) ==
    /\ mode = "EDIT"
    /\ isExpanding' = TRUE
    /\ isMasking' = FALSE
    /\ cropEnabled' = FALSE
    /\ appEv' = "expand-mode"
    /\ lastCall' = NoCall
    /\ lastDone' = NoDone
    /\ UNCHANGED <<mode, originalImage, previewUrl, scale, isProcessing, errorMessage,
                   isCompareMode, showExportMenu, aiPrompt, isAiProcessing, apiKey,
                   loading, jobs, aiJob, uploadEv, aspectRatio, brushSize>>
    /\ EffectDim(d)
    /\ CropSync(cropData)
    /\ BrushSync(maskStrokes)
    /\ TimerSync
    /\ UNCHANGED procVars

\* the "Inpaint" button
ModeInpaint(d) ==
    /\ mode = "EDIT"
    /\ isMasking' = TRUE
    /\ isExpanding' = FALSE
    /\ cropEnabled' = FALSE
    /\ appEv' = "inpaint-mode"
    /\ lastCall' = NoCall
    /\ lastDone' = NoDone
    /\ UNCHANGED <<mode, originalImage, previewUrl, scale, isProcessing, errorMessage,
                   isCompareMode, showExportMenu, aiPrompt, isAiProcessing, apiKey,
                   loading, jobs, aiJob, uploadEv, aspectRatio, brushSize>>
    /\ EffectDim(d)
    /\ CropSync(cropData)
    /\ BrushSync(maskStrokes)
    /\ TimerSync
    /\ UNCHANGED procVars

\* the target ratio buttons of expand mode: handleExpandRatio
ExpandRatio(r) ==
    /\ mode = "EDIT"
    /\ isExpanding
    /\ Len(jobs) < MaxJobs
    /\ cropEnabled' = FALSE
    /\ isMasking' = FALSE
    /\ appEv' = "expand"
    /\ lastDone' = NoDone
    /\ jobs' = Append(jobs, Job("expand", originalImage, TransformOptions(QI(1), FALSE, NoCrop, "png", QI(1)), r))
    /\ isProcessing' = TRUE
    /\ lastCall' = Job("expand", originalImage, TransformOptions(QI(1), FALSE, NoCrop, "png", QI(1)), r)
    /\ UNCHANGED <<mode, originalImage, previewUrl, scale, errorMessage, isCompareMode,
                   isExpanding, showExportMenu, aiPrompt, isAiProcessing, containerDim,
                   apiKey, loading, aiJob, uploadEv, aspectRatio, brushSize>>
    /\ CropSync(cropData)
    /\ BrushSync(maskStrokes)
    /\ TimerSync
    /\ UNCHANGED procVars

\* the Export button: the export menu is opened or closed
ToggleExportMenu ==
    /\ mode = "EDIT"
    /\ showExportMenu' = ~showExportMenu
    /\ appEv' = "menu"
    /\ lastCall' = NoCall
    /\ lastDone' = NoDone
    /\ UNCHANGED <<mode, originalImage, previewUrl, scale, cropEnabled, isProcessing,
                   errorMessage, isCompareMode, isExpanding, aiPrompt, isAiProcessing,
                   containerDim, apiKey, loading, jobs, aiJob, uploadEv, aspectRatio,
                   isMasking, brushSize>>
    /\ CropSync(cropData)
    /\ BrushSync(maskStrokes)
    /\ TimerSync
    /\ UNCHANGED procVars

\* "Download File" in the export menu: handleDownload, with the format and the quality
\* the menu's controls were set to
Download(fmt, q) ==
    /\ mode = "EDIT"
    /\ showExportMenu
    /\ Len(jobs) < MaxJobs
    /\ showExportMenu' = FALSE
    /\ appEv' = "download"
    /\ lastDone' = NoDone
    /\ jobs' = Append(jobs, Job("download", originalImage, TransformOptions(scale, cropEnabled, cropData, fmt, q), QZero))
    /\ isProcessing' = TRUE
    /\ lastCall' = Job("download", originalImage, TransformOptions(scale, cropEnabled, cropData, fmt, q), QZero)
    /\ UNCHANGED <<mode, originalImage, previewUrl, scale, cropEnabled, errorMessage,
                   isCompareMode, isExpanding, aiPrompt, isAiProcessing, containerDim,
                   apiKey, loading, aiJob, uploadEv, aspectRatio, isMasking, brushSize>>
    /\ CropSync(cropData)
    /\ BrushSync(maskStrokes)
    /\ TimerSync
    /\ UNCHANGED procVars

\* the debounce timer fires, 300 ms after the last change of the effect's dependencies
DebounceFire ==
    /\ timer
    /\ (mode = "EDIT" /\ ~cropEnabled /\ ~isMasking /\ ~isExpanding) => Len(jobs) < MaxJobs
    /\ appEv' = "debounce"
    /\ lastDone' = NoDone
    /\ IF mode = "EDIT" /\ ~cropEnabled /\ ~isMasking /\ ~isExpanding /\ originalImage # NoImage
       THEN /\ jobs' = Append(jobs, PreviewJob(originalImage, scale, cropEnabled, cropData))
            /\ isProcessing' = TRUE
            /\ lastCall' = PreviewJob(originalImage, scale, cropEnabled, cropData)
       ELSE /\ lastCall' = NoCall
            /\ UNCHANGED <<jobs, isProcessing>>
    /\ UNCHANGED <<mode, originalImage, previewUrl, scale, cropEnabled, errorMessage,
                   isCompareMode, isExpanding, showExportMenu, aiPrompt, isAiProcessing,
                   containerDim, apiKey, loading, aiJob, uploadEv, aspectRatio, isMasking,
                   brushSize>>
    /\ CropSync(cropData)
    /\ BrushSync(maskStrokes)
    /\ timer' = FALSE
    /\ clock' = 0
    /\ UNCHANGED procVars

\* the transform of the i-th job in flight settles: the continuation of updatePreview,
\* handleDownload or handleExpandRatio runs. A promise that is never settled stays in flight
JobSettle(i, ctx, blob, d) ==
    /\ i \in 1..Len(jobs)
    /\ ~jobs[i].stuck
    /\ appEv' = "settle"
    /\ lastCall' = NoCall
    /\ lastDone' = [job |-> jobs[i], outcome |-> JobResult(jobs[i], ctx, blob).status]
    /\ originalImage' = SessionImageAfter(originalImage, jobs[i], JobResult(jobs[i], ctx, blob))
    /\ LET job == jobs[i]
           r == JobResult(job, ctx, blob)
       IN  IF r.status = "pending"
           THEN /\ jobs' = [jobs EXCEPT ![i].stuck = TRUE]
                /\ UNCHANGED <<isProcessing, previewUrl, errorMessage>>
           ELSE /\ jobs' = RemoveAt(jobs, i)
                /\ isProcessing' = FALSE
                /\ previewUrl' = IF r.status = "resolved" /\ job.kind # "download"
                                 THEN ResultUrl(job, r)
                                 ELSE previewUrl
                /\ errorMessage' = IF r.status = "rejected" THEN CatchMessage(job.kind)
                                   ELSE errorMessage
    /\ UNCHANGED <<mode, scale, cropEnabled, isCompareMode, isExpanding, showExportMenu,
                   aiPrompt, isAiProcessing, apiKey, loading, aiJob, uploadEv, aspectRatio,
                   isMasking, brushSize>>
    /\ EffectDim(d)
    /\ CropSync(cropData)
    /\ BrushSync(maskStrokes)
    /\ TimerSync
    /\ UNCHANGED procVars

\* onLoad of the displayed <img>: setContainerDim (a load that reports the size already
\* held changes nothing)
ImgOnLoad(d) ==
    /\ mode = "EDIT"
    /\ previewUrl # NoUrl
    /\ ~CompareShown(isCompareMode, originalImage, previewUrl)
    /\ d # containerDim
    /\ containerDim' = d
    /\ appEv' = "imgload"
    /\ lastCall' = NoCall
    /\ lastDone' = NoDone
    /\ UNCHANGED <<mode, originalImage, previewUrl, scale, cropEnabled, isProcessing,
                   errorMessage, isCompareMode, isExpanding, showExportMenu, aiPrompt,
                   isAiProcessing, apiKey, loading, jobs, aiJob, uploadEv, aspectRatio,
                   isMasking, brushSize>>
    /\ CropSync(cropData)
    /\ BrushSync(maskStrokes)
    /\ TimerSync
    /\ UNCHANGED procVars

\* onPointerDown of the crop overlay rendered by the App
AppCropPointerDown(p, h, cx, cy) ==
    /\ CropShown(mode, cropEnabled, originalImage, containerDim, isCompareMode, previewUrl)
    /\ CropPointerDownStep(p, h, cx, cy)
    /\ cropData' = IF emitted' # NoCrop THEN ToNative(emitted', originalImage, containerDim)
                   ELSE cropData
    /\ appEv' = "crop"
    /\ lastCall' = NoCall
    /\ lastDone' = NoDone
    /\ UNCHANGED <<mode, originalImage, previewUrl, scale, cropEnabled, isProcessing,
                   errorMessage, isCompareMode, isExpanding, showExportMenu, aiPrompt,
                   isAiProcessing, containerDim, apiKey, loading, jobs, aiJob, uploadEv,
                   isMasking, brushSize>>
    /\ TimerSync
    /\ UNCHANGED <<maskVars, procVars>>

\* onPointerMove of the crop overlay rendered by the App: onCropChange sets cropData
AppCropPointerMove(cx, cy) ==
    /\ CropShown(mode, cropEnabled, originalImage, containerDim, isCompareMode, previewUrl)
    /\ CropPointerMoveStep(cx, cy)
    /\ cropData' = IF emitted' # NoCrop THEN ToNative(emitted', originalImage, containerDim)
                   ELSE cropData
    /\ appEv' = "crop"
    /\ lastCall' = NoCall
    /\ lastDone' = NoDone
    /\ UNCHANGED <<mode, originalImage, previewUrl, scale, cropEnabled, isProcessing,
                   errorMessage, isCompareMode, isExpanding, showExportMenu, aiPrompt,
                   isAiProcessing, containerDim, apiKey, loading, jobs, aiJob, uploadEv,
                   isMasking, brushSize>>
    /\ TimerSync
    /\ UNCHANGED <<maskVars, procVars>>

\* onPointerUp of the crop overlay rendered by the App
AppCropPointerUp(p) ==
    /\ CropShown(mode, cropEnabled, originalImage, containerDim, isCompareMode, previewUrl)
    /\ CropPointerUpStep(p)
    /\ cropData' = IF emitted' # NoCrop THEN ToNative(emitted', originalImage, containerDim)
                   ELSE cropData
    /\ appEv' = "crop"
    /\ lastCall' = NoCall
    /\ lastDone' = NoDone
    /\ UNCHANGED <<mode, originalImage, previewUrl, scale, cropEnabled, isProcessing,
                   errorMessage, isCompareMode, isExpanding, showExportMenu, aiPrompt,
                   isAiProcessing, containerDim, apiKey, loading, jobs, aiJob, uploadEv,
                   isMasking, brushSize>>
    /\ TimerSync
    /\ UNCHANGED <<maskVars, procVars>>

\* onPointerDown of the brush overlay rendered by the App
AppBrushPointerDown(p, cx, cy) ==
    /\ BrushShown(mode, isMasking, originalImage, containerDim, isCompareMode, previewUrl)
    /\ BrushPointerDownStep(p, cx, cy)
    /\ appEv' = "brush"
    /\ lastCall' = NoCall
    /\ lastDone' = NoDone
    /\ UNCHANGED <<mode, originalImage, previewUrl, scale, cropEnabled, isProcessing,
                   errorMessage, isCompareMode, isExpanding, showExportMenu, aiPrompt,
                   isAiProcessing, containerDim, apiKey, loading, jobs, aiJob, uploadEv,
                   aspectRatio>>
    /\ UNCHANGED <<cropData, timer, clock>>
    /\ UNCHANGED <<cropVars, procVars>>

\* onPointerUp of the brush overlay rendered by the App: onMaskChange sets maskStrokes
AppBrushPointerUp(p) ==
    /\ BrushShown(mode, isMasking, originalImage, containerDim, isCompareMode, previewUrl)
    /\ BrushPointerUpStep(p)
    /\ appEv' = "brush"
    /\ lastCall' = NoCall
    /\ lastDone' = NoDone
    /\ UNCHANGED <<mode, originalImage, previewUrl, scale, cropEnabled, isProcessing,
                   errorMessage, isCompareMode, isExpanding, showExportMenu, aiPrompt,
                   isAiProcessing, containerDim, apiKey, loading, jobs, aiJob, uploadEv,
                   aspectRatio>>
    /\ UNCHANGED <<cropData, timer, clock>>
    /\ UNCHANGED <<cropVars, procVars>>


\* "2. Construct Prompt"
FinalPrompt(p, masking, expanding) ==
    [template |-> IF expanding THEN "fill"
                  ELSE IF masking THEN "mask"
                  ELSE IF p = <<>> THEN "default"
                  ELSE "plain",
     text |-> p]

\* the branch of "1. Prepare Source Blob" that handleAiEdit takes
AiBranch(masking, st, expanding) ==
    IF masking /\ Len(st) > 0 THEN "masked"
    ELSE IF expanding THEN "expand"
    ELSE "global"

\* mutant of AiFailedText: the underlying message is dropped
AiFailedTextGeneric(msg) == "AI Failed: Unknown error"

\* "AI Failed: " + (e.message || "Unknown error")
AiFailedText(msg) ==
    CASE msg = ""                             -> "AI Failed: Unknown error"
      [] msg = "Could not get canvas context" -> "AI Failed: Could not get canvas context"
      [] msg = "Canvas conversion failed"     -> "AI Failed: Canvas conversion failed"
      [] msg = "Context failed"               -> "AI Failed: Context failed"
      [] msg = "Mask composite failed"        -> "AI Failed: Mask composite failed"
      [] msg = "No image to expand"           -> "AI Failed: No image to expand"
      [] msg = "Failed to fetch"              -> "AI Failed: Failed to fetch"
      [] msg = "quota exceeded"               -> "AI Failed: quota exceeded"

\* the outcome of "1. Prepare Source Blob" for the request j: processImage (ctx, blob),
\* compositeMaskOntoImage (ctx2, blob2), fetch (fetchOk)
PrepareOutcome(j, ctx, blob, ctx2, blob2, fetchOk) ==
    LET r == processImage(UrlDims(j.src), j.options, ctx, blob)
        shown == Url("proc", j.src.name, j.src.n, IF r.status = "resolved" THEN r.canvas.width ELSE QZero,
                     IF r.status = "resolved" THEN r.canvas.height ELSE QZero,
                     j.options.crop, j.options.scale, QZero)
        ok(src) == [ok |-> TRUE, error |-> "", source |-> src]
        failed(msg) == [ok |-> FALSE, error |-> msg, source |-> NoUrl]
    IN  IF j.branch = "masked"
        THEN IF r.status = "rejected" THEN failed(r.error)
             ELSE IF ~ctx2 THEN failed("Context failed")
             ELSE IF ~blob2 THEN failed("Mask composite failed")
             ELSE ok([kind |-> "composite", of |-> shown, strokes |-> j.strokes,
                      w |-> j.dims.w, h |-> j.dims.h])
        ELSE IF j.branch = "expand"
        THEN IF j.preview = NoUrl THEN failed("No image to expand")
             ELSE IF ~fetchOk THEN failed("Failed to fetch")
             ELSE ok([kind |-> "preview", of |-> j.preview, strokes |-> <<>>,
                      w |-> 0, h |-> 0])
        ELSE IF r.status = "rejected" THEN failed(r.error)
             ELSE ok([kind |-> "processed", of |-> shown, strokes |-> <<>>, w |-> 0, h |-> 0])

\* mutant of AiButtonDisabled: the button stays enabled while a request is in flight
AiButtonDisabledPromptOnly(aip, prompt, expanding) == Trim(prompt) = <<>> /\ ~expanding

\* disabled={isAiProcessing || (!aiPrompt.trim() && !isExpanding)} of the Generate button
AiButtonDisabled(aip, prompt, expanding) == aip \/ (Trim(prompt) = <<>> /\ ~expanding)

\* the prompt textarea: setAiPrompt
SetAiPrompt(p) ==
    /\ mode = "EDIT"
    /\ p # aiPrompt
    /\ aiPrompt' = p
    /\ appEv' = "prompt"
    /\ lastCall' = NoCall
    /\ lastDone' = NoDone
    /\ UNCHANGED <<mode, originalImage, previewUrl, scale, cropEnabled, isProcessing,
                   errorMessage, isCompareMode, isExpanding, showExportMenu,
                   isAiProcessing, containerDim, apiKey, loading, jobs, aiJob, uploadEv,
                   aspectRatio, isMasking, brushSize>>
    /\ CropSync(cropData)
    /\ BrushSync(maskStrokes)
    /\ TimerSync
    /\ UNCHANGED procVars

\* "Generate with AI": handleAiEdit up to its first await (the model starts no request
\* while the Image of the previous result is still loading)
AiEdit ==
    /\ mode = "EDIT"
    /\ ~AiButtonDisabled(isAiProcessing, aiPrompt, isExpanding)
    /\ aiJob # NoJob => aiJob.stage # "loading"
    /\ originalImage # NoImage
    /\ originalImage.originalUrl.n < MaxEdits
    /\ lastCall' = NoCall
    /\ lastDone' = NoDone
    /\ IF ~apiKey.set \/ Trim(apiKey.text) = <<>>
       THEN /\ errorMessage' = "Missing API Key. Please add VITE_API_KEY in Vercel Settings and redeploy."
            /\ appEv' = "ai-nokey"
            /\ UNCHANGED <<isAiProcessing, aiJob>>
       ELSE /\ isAiProcessing' = TRUE
            /\ errorMessage' = NoError
            /\ appEv' = "ai-start"
            /\ aiJob' = [kind |-> "ai", stage |-> "prepare",
                         branch |-> AiBranch(isMasking, maskStrokes, isExpanding),
                         src |-> originalImage.originalUrl,
                         options |-> TransformOptions(scale, cropEnabled, cropData, "png", QI(1)),
                         strokes |-> maskStrokes, dims |-> containerDim, preview |-> previewUrl,
                         prompt |-> FinalPrompt(aiPrompt, isMasking, isExpanding),
                         source |-> NoUrl, result |-> NoUrl]
    /\ UNCHANGED <<mode, originalImage, previewUrl, scale, cropEnabled, isProcessing,
                   isCompareMode, isExpanding, showExportMenu, aiPrompt, containerDim,
                   apiKey, loading, jobs, uploadEv, aspectRatio, isMasking, brushSize>>
    /\ CropSync(cropData)
    /\ BrushSync(maskStrokes)
    /\ TimerSync
    /\ UNCHANGED procVars

\* the source blob of the request is ready, or its preparation failed: catch, finally
AiPrepare(ctx, blob, ctx2, blob2, fetchOk) ==
    /\ mode = "EDIT"
    /\ aiJob # NoJob
    /\ aiJob.stage = "prepare"
    /\ lastCall' = NoCall
    /\ LET out == PrepareOutcome(aiJob, ctx, blob, ctx2, blob2, fetchOk)
       IN  IF out.ok
           THEN /\ aiJob' = [aiJob EXCEPT !.stage = "remote", !.source = out.source]
                /\ appEv' = "ai-prepared"
                /\ lastDone' = NoDone
                /\ UNCHANGED <<errorMessage, isAiProcessing>>
           ELSE /\ errorMessage' = AiFailedText(out.error)
                /\ isAiProcessing' = FALSE
                /\ aiJob' = NoJob
                /\ appEv' = "ai-fail"
                /\ lastDone' = [outcome |-> "rejected", error |-> out.error]
    /\ UNCHANGED <<mode, originalImage, previewUrl, scale, cropEnabled, isProcessing,
                   isCompareMode, isExpanding, showExportMenu, aiPrompt, containerDim,
                   apiKey, loading, jobs, uploadEv, aspectRatio, isMasking, brushSize>>
    /\ CropSync(cropData)
    /\ BrushSync(maskStrokes)
    /\ TimerSync
    /\ UNCHANGED procVars

\* aiEditImage settles: on success the session image's URL is replaced and the result
\* is loaded into an Image; on failure catch runs; finally in both cases
AiRemote(ok, err, dims) ==
    /\ mode = "EDIT"
    /\ aiJob # NoJob
    /\ aiJob.stage = "remote"
    /\ lastCall' = NoCall
    /\ isAiProcessing' = FALSE
    /\ IF ok
       THEN LET newUrl == Url("ai", "ai", aiJob.src.n + 1, QI(dims[1]), QI(dims[2]), NoCrop,
                              QI(1), QZero)
            IN  /\ originalImage' = [originalImage EXCEPT !.originalUrl = newUrl]
                /\ aiJob' = [aiJob EXCEPT !.stage = "loading", !.result = newUrl]
                /\ appEv' = "ai-done"
                /\ lastDone' = NoDone
                /\ UNCHANGED errorMessage
       ELSE /\ errorMessage' = AiFailedText(err)
            /\ aiJob' = NoJob
            /\ appEv' = "ai-fail"
            /\ lastDone' = [outcome |-> "rejected", error |-> err]
            /\ UNCHANGED originalImage
    /\ UNCHANGED <<mode, previewUrl, scale, cropEnabled, isProcessing, isCompareMode,
                   isExpanding, showExportMenu, aiPrompt, containerDim, apiKey, loading,
                   jobs, uploadEv, aspectRatio, isMasking, brushSize>>
    /\ CropSync(cropData)
    /\ BrushSync(maskStrokes)
    /\ TimerSync
    /\ UNCHANGED procVars

\* mutant of AiLoadedImage: the session image keeps the width and height it had
AiLoadedImageStale(oi, res) == oi

\* setOriginalImage(prev => ({...prev, width: img.width, height: img.height})) in the
\* onload of the AI result
AiLoadedImage(oi, res) == [oi EXCEPT !.width = res.w[1], !.height = res.h[1]]

\* img.onload of the AI result: "4. Update State"
AiImgLoad(d) ==
    /\ mode = "EDIT"
    /\ aiJob # NoJob
    /\ aiJob.stage = "loading"
    /\ lastCall' = NoCall
    /\ lastDone' = NoDone
    /\ originalImage' = AiLoadedImage(originalImage, aiJob.result)
    /\ previewUrl' = aiJob.result
    /\ scale' = QI(1)
    /\ cropEnabled' = FALSE
    /\ isMasking' = FALSE
    /\ isExpanding' = FALSE
    /\ aiPrompt' = <<>>
    /\ aiJob' = NoJob
    /\ appEv' = "ai-loaded"
    /\ UNCHANGED <<mode, isProcessing, errorMessage, isCompareMode, showExportMenu,
                   isAiProcessing, apiKey, loading, jobs, uploadEv, aspectRatio, brushSize>>
    /\ EffectDim(d)
    /\ CropSync(NoCrop)
    /\ BrushSync(<<>>)
    /\ TimerSync
    /\ UNCHANGED procVars

\* the lengths of time the model lets pass in one step, in ms
TickSteps == {100, 150}

\* time passes while the debounce timer is armed: never beyond the moment it is due,
\* when its callback runs
Tick(dt) ==
    /\ timer
    /\ clock + dt <= Delay
    /\ appEv' = "tick"
    /\ lastCall' = NoCall
    /\ lastDone' = NoDone
    /\ UNCHANGED <<mode, originalImage, previewUrl, scale, cropEnabled, isProcessing,
                   errorMessage, isCompareMode, isExpanding, showExportMenu, aiPrompt,
                   isAiProcessing, containerDim, apiKey, loading, jobs, aiJob, uploadEv,
                   aspectRatio, isMasking, brushSize>>
    /\ CropSync(cropData)
    /\ BrushSync(maskStrokes)
    /\ timer' = timer
    /\ clock' = clock + dt
    /\ UNCHANGED procVars

\* the debounce timer fires when it is due, Delay ms after it was set
DebounceDue ==
    /\ clock = Delay
    /\ DebounceFire

\* crop mode: enabling it, locking the ratio, dragging the region, applying it (the
\* debounced preview is left to SpecTransform)
CropApplyNext ==
    \/ EnableCrop
    \/ ApplyCrop
    \/ \E r \in AppRatios \ {QZero} : SetAspectRatio(r)
    \/ \E p \in CropPointers, h \in Handles, q \in DownPts :
          AppCropPointerDown(p, h, q[1], q[2])
    \/ \E q \in AppMovePts : AppCropPointerMove(q[1], q[2])
    \/ \E p \in CropPointers : AppCropPointerUp(p)
    \/ \E i \in 1..MaxJobs, d \in ShownDims : JobSettle(i, TRUE, TRUE, d)

\* crop mode with the debounced preview: enable, drag, apply, and what follows on its own
CropCommitNext ==
    \/ EnableCrop
    \/ ApplyCrop
    \/ \E p \in CropPointers, h \in Handles, q \in DownPts :
          AppCropPointerDown(p, h, q[1], q[2])
    \/ \E q \in AppMovePts : AppCropPointerMove(q[1], q[2])
    \/ \E p \in CropPointers : AppCropPointerUp(p)
    \/ DebounceFire
    \/ \E i \in 1..MaxJobs, d \in ShownDims : JobSettle(i, TRUE, TRUE, d)

\* crop mode and the ways out of it: apply, compare, expand, inpaint, expansion
CropExitNext ==
    \/ EnableCrop
    \/ ApplyCrop
    \/ ToggleCompare
    \/ \E d \in ShownDims : ModeExpand(d)
    \/ \E d \in ShownDims : ModeInpaint(d)
    \/ \E d \in ShownDims : ModeGlobal(d)
    \/ \E r \in {QI(1)} : ExpandRatio(r)
    \/ \E p \in CropPointers, h \in {"se"}, q \in DownPts :
          AppCropPointerDown(p, h, q[1], q[2])
    \/ \E q \in AppMovePts : AppCropPointerMove(q[1], q[2])
    \/ \E p \in CropPointers : AppCropPointerUp(p)
    \/ \E i \in 1..MaxJobs, d \in ShownDims : JobSettle(i, TRUE, TRUE, d)

\* the transforms of the editor: preview, expansion, export
TransformNext ==
    \/ \E s \in AppScales : SetScale(s)
    \/ \E d \in ShownDims : ModeGlobal(d)
    \/ \E d \in ShownDims : ModeExpand(d)
    \/ \E r \in ExpandRatios : ExpandRatio(r)
    \/ ToggleExportMenu
    \/ \E fmt \in {"jpeg"}, q \in {<<9, 10>>} : Download(fmt, q)
    \/ DebounceFire
    \/ \E i \in 1..MaxJobs, ctx \in BOOLEAN, blob \in BOOLEAN, d \in ShownDims :
          JobSettle(i, ctx, blob, d)
    \/ \E d \in ShownDims : ImgOnLoad(d)

\* the uploaded file the editing sessions of the model start from
FileA == CHOOSE f \in Files : f.present /\ f.name = "a.jpg"

\* every control that sets a mode flag: crop, compare, the three AI modes, an expansion
\* request, a completed AI edit
ModesNext ==
    \/ EnableCrop
    \/ ApplyCrop
    \/ ToggleCompare
    \/ \E d \in ShownDims : ModeGlobal(d)
    \/ \E d \in ShownDims : ModeExpand(d)
    \/ \E d \in ShownDims : ModeInpaint(d)
    \/ \E r \in {QI(1)} : ExpandRatio(r)
    \/ \E p \in {<<"p">>} : SetAiPrompt(p)
    \/ AiEdit
    \/ AiPrepare(TRUE, TRUE, TRUE, TRUE, TRUE)
    \/ \E dims \in AiDims : AiRemote(TRUE, "", dims)
    \/ \E d \in ShownDims : AiImgLoad(d)

\* the resize control against the clock: scale changes, time, the timer, the transforms
PreviewNext ==
    \/ \E s \in AppScales : SetScale(s)
    \/ \E dt \in TickSteps : Tick(dt)
    \/ DebounceDue
    \/ \E i \in 1..MaxJobs, ctx \in BOOLEAN, d \in ShownDims : JobSettle(i, ctx, TRUE, d)

\* everything that runs against the session image inside the editor: the transforms
\* (preview, expansion preview, export) and an AI edit, requested in expand mode
SessionNext ==
    \/ DebounceFire
    \/ \E d \in ShownDims : ModeExpand(d)
    \/ \E r \in {QI(1)} : ExpandRatio(r)
    \/ ToggleExportMenu
    \/ \E fmt \in {"jpeg"}, q \in {<<9, 10>>} : Download(fmt, q)
    \/ \E i \in 1..MaxJobs, d \in ShownDims : JobSettle(i, TRUE, TRUE, d)
    \/ AiEdit
    \/ AiPrepare(TRUE, TRUE, TRUE, TRUE, TRUE)
    \/ \E ok \in BOOLEAN, dims \in AiDims : AiRemote(ok, "", dims)
    \/ \E d \in ShownDims : AiImgLoad(d)

\* the AI edit, requested in global, expand and inpaint mode (the preview transforms are
\* left to SpecTransform)
AiNext ==
    \/ \E p \in Prompts \ {<<>>} : SetAiPrompt(p)
    \/ EnableCrop
    \/ AiEdit
    \/ \E ctx \in BOOLEAN, blob \in BOOLEAN, ctx2 \in BOOLEAN, blob2 \in BOOLEAN,
          fetchOk \in BOOLEAN : AiPrepare(ctx, blob, ctx2, blob2, fetchOk)
    \/ \E ok \in BOOLEAN, err \in RemoteErrors, dims \in AiDims : AiRemote(ok, err, dims)
    \/ \E d \in ShownDims : AiImgLoad(d)
    \/ \E d \in ShownDims : ModeExpand(d)
    \/ \E d \in ShownDims : ModeInpaint(d)
    \/ \E p \in {1}, q \in BrushPts : AppBrushPointerDown(p, q[1], q[2])
    \/ \E p \in {1} : AppBrushPointerUp(p)

---------------------------------------------------------------------------
(* Specifications.                                                         *)

\* one fixed crop overlay, for the specifications of the other components
CropIdle ==
    /\ CropInit
    /\ width = 200
    /\ aspectRatio = QZero

\* the App on its upload screen, with a credential
AppIdle ==
    /\ AppMount
    /\ apiKey = [set |-> TRUE, text |-> <<"k">>]

InitOfCrop == CropInit /\ MaskInit /\ ProcIdle /\ AppIdle
InitOfMask == CropIdle /\ MaskInit /\ ProcIdle /\ AppIdle
InitOfProc == CropIdle /\ MaskInit /\ ProcInit /\ AppIdle
InitOfUpload == CropUnmounted /\ MaskInit /\ ProcIdle /\ AppIdle

InitOfCropApply ==
    /\ CropUnmounted /\ MaskInit /\ ProcIdle
    /\ \E d \in ShownDims : AppEditing(FileA, d)
    /\ apiKey = [set |-> TRUE, text |-> <<"k">>]

InitOfTransform ==
    /\ CropUnmounted /\ MaskInit /\ ProcIdle
    /\ \E d \in ClientDims : AppEditing(FileA, d)
    /\ apiKey = [set |-> TRUE, text |-> <<"k">>]

InitOfAi ==
    /\ CropUnmounted /\ MaskInit /\ ProcIdle
    /\ \E d \in ShownDims : AppEditing(FileA, d)
    /\ apiKey \in ApiKeys

\* the resize control against the clock
SpecPreview == InitOfCropApply /\ [][PreviewNext]_vars

\* the session image under transforms and AI edits
SpecSession == InitOfCropApply /\ [][SessionNext]_vars

\* the crop overlay in its container
SpecCrop == InitOfCrop /\ [][CropNext]_vars

\* the crop overlay under pointer events only
SpecCropDrag == InitOfCrop /\ [][CropDragNext]_vars

\* the crop overlay in a container that is resized
SpecCropResize == InitOfCrop /\ [][CropResizeNext]_vars

\* the brush overlay, the session's mask strokes and the compositor
SpecMask == InitOfMask /\ [][MaskNext]_vars

\* processImage and expandImageCanvas applied to inputs drawn by ProcInit
SpecProc == InitOfProc /\ [][ProcNext]_vars

\* the upload screen: handleFileUpload, the loading of accepted files, "New Image"
SpecUpload == InitOfUpload /\ [][UploadNext]_vars

\* crop mode in an editing session
SpecCropApply == InitOfCropApply /\ [][CropApplyNext]_vars

\* crop mode with the debounced preview
SpecCropCommit == InitOfCropApply /\ [][CropCommitNext]_vars

\* crop mode and the ways out of it
SpecCropExit == InitOfCropApply /\ [][CropExitNext]_vars

\* the mode flags under every control that sets one
SpecModes == InitOfCropApply /\ [][ModesNext]_vars

\* the preview, expansion and export transforms of an editing session
SpecTransform == InitOfTransform /\ [][TransformNext]_vars

\* AI edits of an editing session
SpecAi == InitOfAi /\ [][AiNext]_vars

---------------------------------------------------------------------------
(* Claims.                                                                 *)

IsPrefix(a, b) == Len(a) <= Len(b) /\ SubSeq(b, 1, Len(a)) = a

\* the region lies in the container
InContainer(c) ==
    /\ QLe(QZero, c.x)
    /\ QLe(QZero, c.y)
    /\ QLe(QAdd(c.x, c.width), QI(width))
    /\ QLe(QAdd(c.y, c.height), QI(height))

\* C1: with a locked ratio r # 0, after every pointer-move update of a drag gesture
\* (move or 'se' resize) the region has width / height = r.
C1_LockedRatioKept ==
    (cropEv = "move" /\ aspectRatio # QZero) =>
        /\ QLt(QZero, crop.height)
        /\ QDiv(crop.width, crop.height) = aspectRatio

\* C1 witness: a locked 'se' resize whose pointer-move changed the region's width.
C1_Witness ==
    /\ cropEv = "move"
    /\ aspectRatio # QZero
    /\ dragHandle = "se"
    /\ crop.width # startPos.cw

\* C2: after every pointer-move update of a drag gesture the region lies in the
\* container: x >= 0, y >= 0, x + width <= W, y + height <= H.
C2_InContainerAfterMove ==
    cropEv = "move" => InContainer(crop)

\* C3: in every reachable state of the crop region, width >= 50 and height >= 50.
C3_MinSize ==
    /\ QLe(QI(MinSize), crop.width)
    /\ QLe(QI(MinSize), crop.height)

\* no stroke of the sequence has zero points
NoEmptyStroke(st) == \A i \in 1..Len(st) : Len(st[i].points) > 0

\* a pointer-up during Drawing: the active stroke is appended iff it has a point, and
\* the active point list is empty afterwards
C4_UpStep ==
    (isDrawing /\ maskEv' = "up") =>
        /\ Len(currentPoints) > 0 =>
              strokes' = Append(strokes, NewStroke(currentPoints, brushSize))
        /\ Len(currentPoints) = 0 => strokes' = strokes
        /\ currentPoints' = <<>>

\* C4: on pointer-up during Drawing the active stroke is appended to the stroke sequence
\* iff it has at least one point, the active point list is empty afterwards, and no
\* stroke with zero points is ever in the stroke sequence.
C4_PointerUpPersists ==
    /\ [](NoEmptyStroke(strokes) /\ NoEmptyStroke(maskStrokes))
    /\ [][C4_UpStep]_vars

\* C4 witness: a pointer-up has just appended the active stroke and emptied the point list.
C4_Witness ==
    /\ maskEv = "up"
    /\ Len(strokes) > 0
    /\ Len(strokes[Len(strokes)].points) = MaxPoints
    /\ currentPoints = <<>>

\* the strokes whose gestures ended after the last Clear Mask
SinceClear == SubSeq(endLog, cleared + 1, Len(endLog))

\* C5: after Clear Mask the session's stroke sequence is empty, and it never again
\* holds a stroke drawn before the clear.
C5_ClearIsFinal ==
    /\ maskEv = "clear" => maskStrokes = <<>>
    /\ IsPrefix(maskStrokes, SinceClear)

\* the k-th stroke of st is the (k+1)-th draw call of ops, for every k
DrawnInOrder(ops, st) ==
    /\ Len(ops) >= 1 + Len(st)
    /\ \A k \in 1..Len(st) :
          /\ ops[k + 1].op = "stroke"
          /\ ops[k + 1].path = st[k].points
          /\ ops[k + 1].lineWidth = st[k].size
          /\ ops[k + 1].color = st[k].color

\* the index of the last draw call whose path goes through point pt (0: none)
PaintedLast(ops, pt) ==
    LET hits == {k \in 1..Len(ops) :
                    ops[k].op = "stroke" /\ \E i \in 1..Len(ops[k].path) : ops[k].path[i] = pt}
    IN  IF hits = {} THEN 0 ELSE CHOOSE k \in hits : \A l \in hits : l <= k

\* of two strokes of st through a common point, the earlier one is not the one painted last
LaterOnTop(ops, st) ==
    \A i \in 1..Len(st), j \in 1..Len(st) :
        i < j =>
            \A a \in 1..Len(st[i].points), b \in 1..Len(st[j].points) :
                st[i].points[a] = st[j].points[b] =>
                    PaintedLast(ops, st[i].points[a]) >= j + 1

C6_Order ==
    /\ isMasking => strokes = endLog
    /\ IsPrefix(maskStrokes, endLog)
    /\ isMasking => DrawnInOrder(overlayOps, strokes) /\ LaterOnTop(overlayOps, strokes)
    /\ maskEv = "composite" =>
          /\ compositeOps[1].op = "drawImage"
          /\ Len(compositeOps) = 1 + Len(maskStrokes)
          /\ DrawnInOrder(compositeOps, maskStrokes)
          /\ LaterOnTop(compositeOps, maskStrokes)

C6_AppendOnly ==
    /\ maskEv' \notin {"clear", "enter"} => IsPrefix(maskStrokes, maskStrokes')
    /\ maskEv' \notin {"enter", "exit"} => IsPrefix(strokes, strokes')

\* C6: between clears the stroke sequence is append-only and holds the strokes in the
\* order their gestures ended; the overlay repaint and the mask compositor draw the
\* strokes in sequence order, so of two overlapping strokes the later is painted last.
C6_DrawOrderKept ==
    /\ []C6_Order
    /\ [][C6_AppendOnly]_vars

\* C6 witness: two different strokes, drawn one after the other, have been composited.
C6_Witness ==
    /\ maskEv = "composite"
    /\ Len(maskStrokes) = 2
    /\ maskStrokes[1] # maskStrokes[2]
    /\ maskStrokes = endLog

\* C7: in both overlays a capture taken on pointer-down is released at the pointer-up
\* that ends the gesture, so none is held once the gesture is over, and
\* releasePointerCapture is never called when no capture is held.
C7_CaptureReleasedOnce ==
    /\ cropRelease # "idle"
    /\ brushRelease # "idle"
    /\ ~isDragging => cropCaptured = {}
    /\ ~isDrawing => brushCaptured = {}

\* the scenario of the specification: 1000x800, crop {100,100,400,400} px, scale 0.5
IsCropScenario ==
    /\ img = <<1000, 800>>
    /\ options.crop.unit = "px"
    /\ options.crop.width = QI(400) /\ options.crop.height = QI(400)
    /\ options.scale = <<1, 2>>

\* C8: processImage's output is (imageWidth*scale) x (imageHeight*scale) with no crop and
\* (crop.width*scale) x (crop.height*scale) with a pixel-unit crop; scale 1 with no crop
\* gives the input size; 1000x800 cropped to 400x400 at scale 0.5 gives 200x200.
C8_OutputSize ==
    procResult.status = "resolved" =>
        /\ options.crop.unit = "none" =>
              /\ procResult.canvas.width = QMul(QI(img[1]), options.scale)
              /\ procResult.canvas.height = QMul(QI(img[2]), options.scale)
        /\ options.crop.unit = "px" =>
              /\ procResult.canvas.width = QMul(options.crop.width, options.scale)
              /\ procResult.canvas.height = QMul(options.crop.height, options.scale)
        /\ (options.crop.unit = "none" /\ options.scale = QI(1)) =>
              procResult.canvas = [width |-> QI(img[1]), height |-> QI(img[2])]
        /\ IsCropScenario =>
              procResult.canvas = [width |-> QI(200), height |-> QI(200)]

\* C8 witness: the crop scenario has been processed, with maintainAspect off.
C8_Witness ==
    /\ procResult.status = "resolved"
    /\ IsCropScenario
    /\ ~options.maintainAspect
    /\ procResult.canvas.width = QI(200)

\* C9: expandImageCanvas gives a canvas with newWidth / newHeight = t, newWidth >= w and
\* newHeight >= h; if t > w/h the height stays h and the width is h*t, otherwise the
\* width stays w and the height is w/t; 800x600 at 16/9 gives height 600, width ~ 1067.
C9_ExpandSize ==
    expandResult.status = "resolved" =>
        LET w == QI(img[1])
            h == QI(img[2])
            cw == expandResult.canvas.width
            ch == expandResult.canvas.height
        IN  /\ QDiv(cw, ch) = targetRatio
            /\ QLe(w, cw)
            /\ QLe(h, ch)
            /\ QLt(QDiv(w, h), targetRatio) => ch = h /\ cw = QMul(h, targetRatio)
            /\ ~QLt(QDiv(w, h), targetRatio) => cw = w /\ ch = QDiv(w, targetRatio)
            /\ (img = <<800, 600>> /\ targetRatio = <<16, 9>>) =>
                  ch = QI(600) /\ QLt(QI(1066), cw) /\ QLt(cw, QI(1067))

\* C9 witness: 800x600 has been expanded to 16/9.
C9_Witness ==
    /\ expandResult.status = "resolved"
    /\ img = <<800, 600>>
    /\ targetRatio = <<16, 9>>
    /\ expandResult.canvas.height = QI(600)

\* C10: the source is drawn at ((newWidth-srcWidth)/2, (newHeight-srcHeight)/2) after the
\* whole canvas has been filled with the fill colour; the padding is equal on opposite
\* sides and the source lies inside the canvas.
C10_Centered ==
    expandResult.status = "resolved" =>
        LET cw == expandResult.canvas.width
            ch == expandResult.canvas.height
            fill == expandResult.ops[1]
            src == expandResult.ops[2]
        IN  /\ Len(expandResult.ops) = 2
            /\ fill.op = "fillRect" /\ fill.fillStyle = FillColor
            /\ fill.x = QZero /\ fill.y = QZero /\ fill.w = cw /\ fill.h = ch
            /\ src.op = "drawImage"
            /\ src.w = QI(img[1]) /\ src.h = QI(img[2])
            /\ src.x = QDiv(QSub(cw, QI(img[1])), QI(2))
            /\ src.y = QDiv(QSub(ch, QI(img[2])), QI(2))
            /\ src.x = QSub(cw, QAdd(src.x, src.w))
            /\ src.y = QSub(ch, QAdd(src.y, src.h))
            /\ QLe(QZero, src.x) /\ QLe(QZero, src.y)
            /\ QLe(QAdd(src.x, src.w), cw) /\ QLe(QAdd(src.y, src.h), ch)

\* C10 witness: an expansion that pads the source on the left and on the right.
C10_Witness ==
    /\ expandResult.status = "resolved"
    /\ QLt(QZero, expandResult.ops[2].x)
    /\ expandResult.ops[2].y = QZero

\* C15: when the overlay is re-initialised with a container width or height <= 0,
\* the previous region is left unchanged and no region is emitted to the parent.
C15_DegenerateInitIgnored ==
    [][(cropEv' = "resize" /\ (width' <= 0 \/ height' <= 0))
          => (crop' = crop /\ emitted' = NoCrop)]_vars

\* the centred 80% rectangle of a W x H container, as the claim states it
\* (W / H > r is taken as W > r * H)
CentredEighty(W, H, r) ==
    LET w == IF r = QZero THEN QMul(Eighty, QI(W))
             ELSE IF QLt(QMul(r, QI(H)), QI(W)) THEN QMul(QMul(Eighty, QI(H)), r)
             ELSE QMul(Eighty, QI(W))
        h == IF r = QZero THEN QMul(Eighty, QI(H))
             ELSE IF QLt(QMul(r, QI(H)), QI(W)) THEN QMul(Eighty, QI(H))
             ELSE QDiv(QMul(Eighty, QI(W)), r)
    IN  [x |-> QDiv(QSub(QI(W), w), QI(2)), y |-> QDiv(QSub(QI(H), h), QI(2)),
         width |-> w, height |-> h]

\* C16: on mount and after every change of the container's width or height or of the
\* locked ratio, the region is the centred rectangle at 80% scale (free: 0.8W x 0.8H;
\* locked r: height-bound when W/H > r, width-bound otherwise), it fits in the
\* container and it is the region emitted to the parent.
C16_InitCentred ==
    cropEv \in {"mount", "init", "resize"} =>
        /\ crop = CentredEighty(width, height, aspectRatio)
        /\ InContainer(crop)
        /\ emitted = crop

\* C16 witness: a resize of the container re-initialised a locked region, height-bound.
C16_Witness ==
    /\ cropEv = "resize"
    /\ aspectRatio = QI(1)
    /\ width = 200 /\ height = 120
    /\ crop = [x |-> QI(52), y |-> QI(12), width |-> QI(96), height |-> QI(96)]
    /\ emitted = crop

\* the number of times the call c occurs in the sequence cs
CallCount(cs, c) == Cardinality({i \in DOMAIN cs : cs[i] = c})

\* C17: processImage settles, never stays pending; it is rejected with an error exactly
\* when the 2D context cannot be created or encoding yields no blob (never a silent
\* success), and it asks for the context and for the blob at most once (no retry).
C17_ProcessImageRejects ==
    procResult.status # "none" =>
        /\ procResult.status \in {"resolved", "rejected"}
        /\ (procResult.status = "rejected") <=> (~ctxOk \/ ~blobOk)
        /\ procResult.status = "rejected" =>
               procResult.error \in {"Could not get canvas context", "Canvas conversion failed"}
        /\ CallCount(procResult.calls, "getContext") = 1
        /\ CallCount(procResult.calls, "toBlob") <= 1

\* C17 witness: the context was created and encoding yielded no blob.
C17_Witness ==
    /\ procResult.status = "rejected"
    /\ ctxOk /\ ~blobOk
    /\ procResult.error = "Canvas conversion failed"

\* C14: when mask mode is exited, the session's mask stroke sequence is emptied.
C14_ExitEmptiesMask ==
    maskEv = "exit" => maskStrokes = <<>>

\* C11: handleFileUpload accepts a file if and only if its MIME type is image/jpeg,
\* image/png or image/webp and its size is at most 10*1024*1024 bytes; a rejected file
\* sets an error message and leaves the mode, the session image and the preview (and
\* the images being loaded) unchanged.
C11_UploadStep ==
    (appEv' = "upload" /\ uploadEv'.file.present) =>
        LET f == uploadEv'.file
            ok == /\ f.type \in {"image/jpeg", "image/png", "image/webp"}
                  /\ f.size <= 10 * 1024 * 1024
        IN  /\ (uploadEv'.verdict = "accepted") <=> ok
            /\ ok => (f \in loading' /\ errorMessage' = NoError)
            /\ ~ok => /\ errorMessage' # NoError
                       /\ uploadEv'.verdict = "rejected"
                       /\ mode' = mode
                       /\ originalImage' = originalImage
                       /\ previewUrl' = previewUrl
                       /\ loading' = loading

C11_UploadValidated == [][C11_UploadStep]_vars

\* C11 witness: an image/gif was refused on the upload screen of a fresh session, and
\* earlier a file of exactly 10 MiB was accepted.
C11_Witness ==
    /\ appEv = "upload"
    /\ uploadEv.file.present
    /\ uploadEv.file.type = "image/gif"
    /\ uploadEv.verdict = "rejected"
    /\ mode = "UPLOAD"
    /\ originalImage = NoImage
    /\ \E f \in loading : f.size = 10485760

\* the credential is undefined, empty or made of whitespace only
BlankKey(k) == ~k.set \/ \A i \in 1..Len(k.text) : k.text[i] \in {" ", "\t"}

C20_NoKeyStep ==
    appEv' \in {"ai-nokey", "ai-start"} =>
        /\ BlankKey(apiKey) <=> appEv' = "ai-nokey"
        /\ BlankKey(apiKey) =>
              /\ errorMessage' # NoError
              /\ isAiProcessing' = FALSE
              /\ isAiProcessing = FALSE
              /\ aiJob' = NoJob
              /\ jobs' = jobs
              /\ lastCall' = NoCall
              /\ compositeOps' = <<>>
              /\ timer' = timer

\* C20: an AI edit requested with a missing or blank API credential sets an error and
\* returns: no transform, composite or request is started, isAiProcessing stays false,
\* nothing is scheduled again; with a credential the request is started
C20_NoKeyReturnsEarly == [][C20_NoKeyStep]_vars

C20_Witness ==
    /\ appEv = "ai-nokey"
    /\ apiKey.set
    /\ apiKey.text # <<>>
    /\ errorMessage # NoError
    /\ ~isAiProcessing
    /\ aiJob = NoJob

\* the message shown for an AI edit that failed with the error message err
C19_Surfaced(err, shown) ==
    \/ err = "" /\ shown = "AI Failed: Unknown error"
    \/ err = "Could not get canvas context" /\ shown = "AI Failed: Could not get canvas context"
    \/ err = "Canvas conversion failed" /\ shown = "AI Failed: Canvas conversion failed"
    \/ err = "Context failed" /\ shown = "AI Failed: Context failed"
    \/ err = "Mask composite failed" /\ shown = "AI Failed: Mask composite failed"
    \/ err = "No image to expand" /\ shown = "AI Failed: No image to expand"
    \/ err = "Failed to fetch" /\ shown = "AI Failed: Failed to fetch"
    \/ err = "quota exceeded" /\ shown = "AI Failed: quota exceeded"

C19_FailStep ==
    appEv' \in {"ai-start", "ai-prepared", "ai-fail"} =>
        /\ originalImage' = originalImage
        /\ previewUrl' = previewUrl
        /\ scale' = scale
        /\ cropEnabled' = cropEnabled
        /\ cropData' = cropData
        /\ maskStrokes' = maskStrokes
        /\ isMasking' = isMasking
        /\ isExpanding' = isExpanding
        /\ mode' = mode
        /\ aiPrompt' = aiPrompt
        /\ appEv' = "ai-fail" =>
              /\ isAiProcessing
              /\ isAiProcessing' = FALSE
              /\ aiJob' = NoJob
              /\ C19_Surfaced(lastDone'.error, errorMessage')

\* C19: the steps of an AI edit that fails (the request, the preparation of its input,
\* the failure of the preparation or of the remote edit) leave the session image, the
\* preview, scale, crop, mask strokes, mode flags and prompt as they were; the failure
\* sets errorMessage to "AI Failed: " and the underlying message, and isAiProcessing to
\* false
C19_AiFailureKeepsState == [][C19_FailStep]_vars

C19_Witness ==
    /\ appEv = "ai-fail"
    /\ lastDone.error = "quota exceeded"
    /\ errorMessage = "AI Failed: quota exceeded"
    /\ ~isAiProcessing
    /\ isMasking
    /\ Len(maskStrokes) > 0
    /\ aiPrompt # <<>>

\* the region c of a w x h display in the pixels of a W x H image, each axis by its own
\* factor
C12_PerAxis(c, W, H, w, h) ==
    [x |-> QMul(c.x, QDiv(QI(W), QI(w))), y |-> QMul(c.y, QDiv(QI(H), QI(h))),
     width |-> QMul(c.width, QDiv(QI(W), QI(w))),
     height |-> QMul(c.height, QDiv(QI(H), QI(h)))]

C12_ApplyStep ==
    (appEv' = "apply" /\ lastCall' # NoCall) =>
        /\ crop # NoCrop
        /\ lastCall'.kind = "preview"
        /\ lastCall'.options.crop # NoCrop
        /\ LET n == lastCall'.options.crop
               e == C12_PerAxis(crop, originalImage.width, originalImage.height,
                                containerDim.w, containerDim.h)
           IN  /\ n.x = e.x
               /\ n.y = e.y
               /\ n.width = e.width
               /\ n.height = e.height
               /\ InContainer(crop) =>
                     /\ QLe(QZero, n.x)
                     /\ QLe(QZero, n.y)
                     /\ QLe(QAdd(n.x, n.width), QI(originalImage.width))
                     /\ QLe(QAdd(n.y, n.height), QI(originalImage.height))

\* C12: Apply, with crop mode on and a region held, calls the transform with the overlay's
\* region converted to native pixels by imageWidth/displayWidth horizontally and
\* imageHeight/displayHeight vertically; a region inside the container gives a native
\* region inside the image
C12_ApplyConvertsPerAxis == [][C12_ApplyStep]_vars

C12_Witness ==
    /\ appEv = "apply"
    /\ lastCall # NoCall
    /\ lastCall.options.crop # NoCrop
    /\ QLt(QI(640), lastCall.options.crop.width)
    /\ ~cropEnabled
    /\ Len(jobs) > 0

\* C13: a step that ends crop mode (Apply, the compare toggle, the switch to Expand or
\* Inpaint, an expansion request) leaves no crop region in the session
C13_ExitClearsCropData ==
    [][(cropEnabled /\ ~cropEnabled') => cropData' = NoCrop]_vars

\* C18: when the transform of a preview, an expansion or an export fails, the operation
\* ends with an error message set and the preview it found
C18_FailureAborts ==
    [][(appEv' = "settle" /\ lastDone'.outcome # "resolved")
          => /\ errorMessage' # NoError
             /\ previewUrl' = previewUrl
             /\ Len(jobs') < Len(jobs)]_vars


\* the region of a drag computed from the pointer-down snapshot sp alone, for the
\* pointer at q
C27_FromSnapshot(sp, h, r, q) ==
    DragCrop([x |-> sp.cx, y |-> sp.cy, width |-> sp.cw, height |-> sp.ch],
             sp, h, r, q[1] - sp.x, q[2] - sp.y)

\* C27: during a drag gesture the region after a pointer-move is a function of the
\* pointer-down snapshot and the pointer position only, whatever moves came before
C27_DragPathIndependent ==
    [][\A q \in DragMovePts :
          (isDragging /\ CropPointerMove(q[1], q[2]))
             => crop' = C27_FromSnapshot(startPos, dragHandle, aspectRatio, q)]_vars

\* a move of a 'move' drag that left the region away from its snapshot and from the
\* container's edges
C27_Witness ==
    /\ cropEv = "move"
    /\ isDragging
    /\ dragHandle = "move"
    /\ crop.x # startPos.cx
    /\ crop.x # QZero
    /\ QLt(QAdd(crop.x, crop.width), QI(width))

C28_MoveStep ==
    /\ (cropEv' = "move" /\ dragHandle = "move") =>
          /\ crop'.width = crop.width
          /\ crop'.height = crop.height
    /\ (cropEv' = "move" /\ dragHandle # "move") =>
          /\ crop'.x = crop.x
          /\ crop'.y = crop.y
    /\ cropEv' = "move-idle" =>
          /\ crop' = crop
          /\ emitted' = NoCrop

\* C28: a 'move' drag leaves width and height unchanged, a resize drag leaves x and y
\* unchanged, a pointer-move without a drag leaves the region unchanged and emits nothing
C28_DragFrame == [][C28_MoveStep]_vars

C28_Witness ==
    /\ cropEv = "move"
    /\ dragHandle = "move"
    /\ crop.x # startPos.cx
    /\ crop.width = startPos.cw
    /\ crop.height = startPos.ch


\* C21: every error message the App holds is shown by the screen it is on
C21_ErrorsDisplayed == errorMessage # NoError => ErrorShown(mode, errorMessage)

\* C22: a transform that completes successfully leaves no error message
C22_SuccessClearsError ==
    [][(appEv' = "settle" /\ lastDone'.outcome = "resolved") => errorMessage' = NoError]_vars

\* C29: the transform of an expansion request resolves or rejects, and isProcessing is
\* false after handleExpandRatio's continuation
C29_ExpansionSettles ==
    [][(appEv' = "settle" /\ lastDone'.job.kind = "expand")
          => /\ lastDone'.outcome \in {"resolved", "rejected"}
             /\ isProcessing' = FALSE]_vars


\* C30: at most one of cropEnabled, isMasking and isExpanding is true, and cropEnabled
\* and isCompareMode are never both true
C30_ModeFlagsExclusive ==
    /\ ~(cropEnabled /\ isMasking)
    /\ ~(cropEnabled /\ isExpanding)
    /\ ~(isMasking /\ isExpanding)
    /\ ~(cropEnabled /\ isCompareMode)

\* compare mode was entered from crop mode
C30_Witness ==
    /\ appEv = "compare"
    /\ isCompareMode
    /\ ~cropEnabled
    /\ cropData # NoCrop
    /\ cropEv = "unmounted"


\* C26: after Apply, when the debounce timer has fired and no transform is in flight,
\* the preview is the image cropped to the region that was applied
C26_AppliedCropShown ==
    (/\ mode = "EDIT"
     /\ ~cropEnabled
     /\ cropData # NoCrop
     /\ ~timer
     /\ jobs = <<>>)
        => previewUrl.crop = cropData


C23_DebounceStep ==
    /\ appEv' = "scale" =>
          /\ lastCall' = NoCall
          /\ jobs' = jobs
          /\ timer'
          /\ clock' = 0
    /\ appEv' = "tick" => jobs' = jobs /\ scale' = scale
    /\ Len(jobs') > Len(jobs) =>
          /\ appEv' = "debounce"
          /\ timer
          /\ clock = Delay
          /\ ~timer'
          /\ Len(jobs') = Len(jobs) + 1
          /\ lastCall' = jobs'[Len(jobs')]
          /\ lastCall'.kind = "preview"
          /\ lastCall'.options.scale = scale
          /\ scale' = scale

\* C23: in standard edit mode a change of scale starts no transform and restarts the
\* delay of 300; a transform is started only by the timer, Delay after the last change,
\* one per firing, with the scale last set
C23_DebouncedOnce == [][C23_DebounceStep]_vars

\* the second change of a burst: the scale is back at 1 before any transform was started,
\* and the delay runs again from zero
C23_Witness ==
    /\ appEv = "scale"
    /\ scale = QI(1)
    /\ timer
    /\ clock = 0
    /\ jobs = <<>>
    /\ ~isProcessing
    /\ previewUrl.kind = "file"
    /\ errorMessage = NoError


\* the sequence q without its i-th element
C24_Without(q, i) == [k \in 1..(Len(q) - 1) |-> IF k < i THEN q[k] ELSE q[k + 1]]

C24_SettleStep ==
    /\ appEv' = "settle" =>
          /\ \E i \in 1..Len(jobs) :
                /\ jobs[i] = lastDone'.job
                /\ jobs' = C24_Without(jobs, i)
          /\ lastDone'.outcome = "resolved" =>
                /\ previewUrl'.kind = "proc"
                /\ previewUrl'.name = lastDone'.job.src.name
                /\ previewUrl'.n = lastDone'.job.src.n
                /\ previewUrl'.scale = lastDone'.job.options.scale
                /\ previewUrl'.crop = lastDone'.job.options.crop
          /\ lastDone'.outcome # "resolved" => previewUrl' = previewUrl
    /\ appEv' # "settle" =>
          /\ previewUrl' = previewUrl
          /\ Len(jobs') >= Len(jobs)
          /\ SubSeq(jobs', 1, Len(jobs)) = jobs

\* C24: transforms in flight overlap and none is cancelled: a step that is not a
\* completion removes no transform and leaves the preview, a completion removes the
\* completed transform only, and a successful one makes its result the preview whatever
\* the order of issue
C24_LastCompletedWins == [][C24_SettleStep]_vars

\* a transform issued earlier completed last: nothing is in flight or scheduled, and the
\* preview shows a scale that is not the current one
C24_Witness ==
    /\ appEv = "settle"
    /\ lastDone.outcome = "resolved"
    /\ jobs = <<>>
    /\ ~timer
    /\ previewUrl.kind = "proc"
    /\ previewUrl.scale # scale
    /\ lastDone.job.options.scale # scale


\* the steps of a transform: its start (by the timer, an expansion ratio, an export
\* format) and its completion
C25_TransformSteps == {"debounce", "expand", "download", "settle"}

C25_SessionStep ==
    /\ appEv' \in C25_TransformSteps => originalImage' = originalImage
    /\ originalImage' # originalImage => appEv' \in {"fileload", "ai-done", "ai-loaded"}
    /\ appEv' = "ai-fail" => originalImage' = originalImage

\* C25: starting or completing a preview transform, an expansion preview or an export
\* leaves the session image (source URL, width, height, size, type) as it was; a step
\* that changes it belongs to a successful upload or a successful AI edit
C25_SessionImageKept == [][C25_SessionStep]_vars

\* an expansion preview completed over the result of an AI edit: the preview is the
\* expanded image, the session image is still the AI result
C25_Witness ==
    /\ appEv = "settle"
    /\ lastDone.outcome = "resolved"
    /\ lastDone.job.kind = "expand"
    /\ previewUrl.kind = "expand"
    /\ originalImage.originalUrl.kind = "ai"
    /\ originalImage.originalUrl = lastDone.job.src


\* an AI edit request is in flight: handleAiEdit has passed the credential check and
\* aiEditImage has not settled
C31_InFlight == aiJob # NoJob /\ aiJob.stage \in {"prepare", "remote"}

C31_RequestStep ==
    /\ appEv' = "ai-start" =>
          /\ ~isAiProcessing
          /\ ~C31_InFlight
          /\ isAiProcessing'
    /\ (C31_InFlight /\ appEv' \notin {"ai-done", "ai-fail"}) =>
          /\ isAiProcessing'
          /\ aiJob'.stage \in {"prepare", "remote"}
          /\ aiJob'.src = aiJob.src
    /\ appEv' \in {"ai-done", "ai-fail"} => isAiProcessing /\ ~isAiProcessing'
    /\ isAiProcessing' <=> (aiJob' # NoJob /\ aiJob'.stage \in {"prepare", "remote"})

\* C31: a request is started only while isAiProcessing is false and none is in flight;
\* isAiProcessing is true exactly while the request is in flight, whatever else is done
\* meanwhile, and becomes false when the request succeeds or fails
C31_OneAiRequest == [][C31_RequestStep]_vars

\* a request is in flight and the prompt is filled in: only isAiProcessing keeps the
\* button disabled
C31_Witness ==
    /\ appEv = "ai-prepared"
    /\ isAiProcessing
    /\ aiJob.stage = "remote"
    /\ Trim(aiPrompt) # <<>>
    /\ ~isExpanding


\* C32: isProcessing is true exactly when a preview transform, an export or an expansion
\* is in flight
C32_ProcessingTracksJobs == isProcessing <=> jobs # <<>>


\* C33: while crop mode is active, the image shown beneath the overlay
\* (originalImage.currentUrl) is the image the transform crops (originalImage.originalUrl)
C33_CropShowsSource ==
    (cropEnabled /\ originalImage # NoImage) =>
        originalImage.currentUrl = originalImage.originalUrl


C34_LoadedStep ==
    appEv' = "ai-loaded" =>
        /\ scale' = QI(1)
        /\ ~cropEnabled' /\ ~isMasking' /\ ~isExpanding'
        /\ maskStrokes' = <<>>
        /\ cropData' = NoCrop
        /\ aiPrompt' = <<>>
        /\ previewUrl' = aiJob.result
        /\ previewUrl'.kind = "ai"
        /\ originalImage'.originalUrl = previewUrl'
        /\ QI(originalImage'.width) = previewUrl'.w
        /\ QI(originalImage'.height) = previewUrl'.h

\* C34: the onload of the result of a successful AI edit leaves scale = 1, crop, mask and
\* expand mode off, no mask strokes, no crop region, an empty prompt, and the session
\* image (with the result's width and height) and the preview on the AI result
C34_AiEditCompleted == [][C34_LoadedStep]_vars

\* an edit of the 800x600 upload has completed with a 1024x1024 result after strokes
\* were painted: the brush overlay is gone and no stroke is left
C34_Witness ==
    /\ appEv = "ai-loaded"
    /\ originalImage.originalUrl.kind = "ai"
    /\ originalImage.width = 1024
    /\ originalImage.currentUrl.w = QI(800)
    /\ maskStrokes = <<>>
    /\ maskEv = "exit"
    /\ endLog # <<>>


C35_ExpandStep ==
    (/\ isExpanding /\ isExpanding'
     /\ previewUrl # NoUrl
     /\ previewUrl.kind = "expand"
     /\ ~(appEv' = "settle" /\ lastDone'.job.kind = "expand"))
        => previewUrl' = previewUrl

\* C35: in expand mode, once an expansion has completed, the preview stays the expanded
\* canvas until expand mode is left or another expansion completes
C35_ExpandedPreviewStays == [][C35_ExpandStep]_vars


=============================================================================
